---- MODULE Spec2Model ----
(***************************************************************************)
(* A small-step model of the Lisp core of Red_Star (plugins/rs_lisp.py):   *)
(* the environment chain (Env, Env.find), user procedures (Procedure) and  *)
(* the tree-walking evaluator lisp_eval with its error wrapping and its    *)
(* wall-clock budget.                                                      *)
(*                                                                         *)
(* Every recursive activation of lisp_eval is a frame on `stack`; `ctl`    *)
(* is what the interpreter is doing right now: entering lisp_eval on an    *)
(* expression ("eval"), handing a value back to the caller ("ret") or      *)
(* unwinding with an exception ("raise").  time() is the variable `now`,   *)
(* advanced by Tick between any two steps.                                 *)
(***************************************************************************)
EXTENDS Integers, Sequences, FiniteSets, TLC

VARIABLES
    envs,     \* the heap of Env objects, indexed by identity; envs[1] is the root
    ctl,      \* [mode, x, env]: current control of the interpreter
    stack,    \* pending lisp_eval activations, innermost last
    now,      \* the value time() returns
    session,  \* the top-level forms the embedding layer evaluates, in order
    tl,       \* how many top-level forms have been started
    results,  \* outcome of every finished top-level lisp_eval call
    evlog,    \* history: every entry to lisp_eval, as [x, env, late]
    text,     \* a call of one of the text-level functions: its input and its outcome
    cc,       \* the custom-commands plugin: its variable store and its invocations
    music     \* the music plugin: the ServerStorage class and its instances

lispvars == <<envs, ctl, stack, now, session, tl, results, evlog>>
vars == <<envs, ctl, stack, now, session, tl, results, evlog, text, cc, music>>

----------------------------------------------------------------------------
(* Bounds of the model *)

MaxClock == 3      \* time() takes the values 0..MaxClock
MaxLog == 60       \* entries kept in the history evlog
MaxEnvs == 6       \* Env objects allocated in one session

(* Program constants *)

MsgLimit == 1500   \* longest message that is wrapped unmodified
Budget == 1        \* the nonzero max_runtime given to a root environment

----------------------------------------------------------------------------
(* Python values.  Expressions are values too (Symbol = str, List = list), *)
(* so one record shape is used for both.                                   *)

V(k, n, s, a) == [k |-> k, n |-> n, s |-> s, a |-> a]

Num(i) == V("int", i, "", <<>>)
Bool(b) == V("bool", IF b THEN 1 ELSE 0, "", <<>>)
Str(s) == V("str", 0, s, <<>>)
List(a) == V("list", 0, "", a)
None == V("none", 0, "", <<>>)
Prim(name) == V("prim", 0, name, <<>>)
\* an exception object: its class and its message, kept as the pieces it
\* was formatted from (context prefixes first, the cause last)
Exc(cls, chunks) == V("err", 0, cls, chunks)

\* class Procedure: parms, body and the captured environment
Procedure(parms, body, env) == V("proc", env, "", <<parms, body>>)

\* bool(v)
Truthy(v) ==
    CASE v.k \in {"int", "bool"} -> v.n # 0
      [] v.k = "str" -> v.s # ""
      [] v.k = "list" -> v.a # <<>>
      [] v.k = "none" -> FALSE
      [] OTHER -> TRUE

\* type(v).__name__
PyType(v) ==
    CASE v.k = "int" -> "int"
      [] v.k = "bool" -> "bool"
      [] v.k = "str" -> "str"
      [] v.k = "list" -> "list"
      [] v.k = "none" -> "NoneType"
      [] v.k = "proc" -> "Procedure"
      [] v.k \in {"prim", "pred"} -> "function"
      [] v.k = "float" -> "float"
      [] OTHER -> v.s

RECURSIVE JoinStr(_, _)
JoinStr(ss, sep) ==
    IF ss = <<>> THEN ""
    ELSE IF Len(ss) = 1 THEN ss[1]
    ELSE ss[1] \o sep \o JoinStr(Tail(ss), sep)

\* str(e) of an exception: the pieces joined
MsgOf(e) == JoinStr([i \in 1..Len(e.a) |-> e.a[i].s], "")

RECURSIVE PyRepr(_)
\* repr(v)
PyRepr(v) ==
    CASE v.k = "int" -> ToString(v.n)
      [] v.k = "bool" -> IF v.n # 0 THEN "True" ELSE "False"
      [] v.k = "str" -> "'" \o v.s \o "'"
      [] v.k = "list" -> "[" \o JoinStr([i \in 1..Len(v.a) |-> PyRepr(v.a[i])], ", ") \o "]"
      [] v.k = "none" -> "None"
      [] v.k = "float" -> v.s
      [] v.k = "err" -> v.s \o "('" \o MsgOf(v) \o "')"
      [] OTHER -> "<" \o PyType(v) \o ">"

\* str(v)
PyStr(v) ==
    CASE v.k = "str" -> v.s
      [] v.k = "err" -> MsgOf(v)
      [] OTHER -> PyRepr(v)

----------------------------------------------------------------------------
(* Environments *)

\* zip pairing the parameters with the arguments in reverse order
ZipBindReversed(parms, args) ==
    LET n == IF Len(parms) < Len(args) THEN Len(parms) ELSE Len(args)
    IN  [nm \in {parms[i].s : i \in 1..n} |->
            args[n + 1 - (CHOOSE i \in 1..n : parms[i].s = nm)]]

\* Env.__init__: zip(parms, args) pairs positionally and stops at the
\* shorter of the two; a later duplicate parameter overwrites an earlier one
ZipBind(parms, args) ==
    LET n == IF Len(parms) < Len(args) THEN Len(parms) ELSE Len(args)
        names == {parms[i].s : i \in 1..n}
        last(nm) == CHOOSE i \in 1..n :
                        /\ parms[i].s = nm
                        /\ \A j \in 1..n : parms[j].s = nm => j <= i
    IN  [nm \in names |-> args[last(nm)]]

Env(parms, args, outer, max_runtime, t) ==
    [vars |-> ZipBind(parms, args), outer |-> outer,
     timestamp |-> t, max_runtime |-> max_runtime]

\* dict.update: the bindings of d, replaced and extended by those of u
Update(d, u) ==
    [nm \in DOMAIN d \cup DOMAIN u |-> IF nm \in DOMAIN u THEN u[nm] ELSE d[nm]]

\* truth value of an Env, which is a dict: an empty one is falsy
EnvTruthy(E, e) == e # 0 /\ DOMAIN E[e].vars # {}

RECURSIVE find(_, _, _)
\* Env.find: the Env it returns, or 0 when it raises 'undefined var'
find(E, self, var) ==
    IF var \in DOMAIN E[self].vars THEN self
    ELSE IF EnvTruthy(E, E[self].outer) THEN find(E, E[self].outer, var)
    ELSE 0

\* the Env of an env chain that has no outer Env
RECURSIVE RootOf(_, _)
RootOf(E, e) == IF E[e].outer = 0 THEN e ELSE RootOf(E, E[e].outer)

\* the Envs of the chain that starts at e, innermost first
RECURSIVE Chain(_, _)
Chain(E, e) == IF e = 0 THEN <<>> ELSE <<e>> \o Chain(E, E[e].outer)

\* standard_env: the primitive table (the part of it the sessions use) and
\* the placeholder identifiers with their empty defaults
StdVars ==
    [nm \in {"+", ">", "do", "car", "list", "username", "usernick",
             "usermention", "authorname", "authornick", "argstring",
             "args", "output"} |->
        CASE nm \in {"+", ">", "do", "car", "list"} -> Prim(nm)
          [] nm = "args" -> List(<<>>)
          [] OTHER -> Str("")]

standard_env(max_runtime, t) ==
    [vars |-> StdVars, outer |-> 0, timestamp |-> t, max_runtime |-> max_runtime]

----------------------------------------------------------------------------
(* Exceptions *)

Text(s) == V("str", 0, s, <<>>)      \* a piece of message text
Prefix(s) == V("str", 1, s, <<>>)    \* a '(<head>): ' context prefix

CCSE(chunks) == Exc("CustomCommandSyntaxError", chunks)
Raise(cls, msg) == Exc(cls, <<Text(msg)>>)

TimeoutError == CCSE(<<Text("The command ran too long.")>>)
UndefinedVar(var) == CCSE(<<Text("undefined var " \o var)>>)

IsTimeout(e) ==
    /\ e.k = "err"
    /\ e.a # <<>>
    /\ e.a[Len(e.a)] = Text("The command ran too long.")

\* a lisp_eval without the budget test
TimedOutNever(E, env, t) == FALSE

\* the test at the top of lisp_eval, on the Env the call was given
TimedOut(E, env, t) ==
    E[env].max_runtime # 0 /\ t - E[env].timestamp > E[env].max_runtime

\* a symbol of 1600 characters
RECURSIVE Rep(_, _)
Rep(s, n) == IF n = 0 THEN "" ELSE s \o Rep(s, n - 1)
LongSym == Rep(Rep("aaaaaaaaaa", 10), 16)

\* s[0] for the symbols of the sessions (strings cannot be indexed here)
FirstChar(s) ==
    CASE Len(s) = 1 -> s
      [] s = "nosuch" -> "n"
      [] s = "car" -> "c"
      [] s = "do" -> "d"
      [] s = "list" -> "l"
      [] s = "output" -> "o"
      [] s = LongSym -> "a"
      [] s \in {"make-p", "make-q"} -> "m"
      [] s = "check-expect" -> "c"
      [] s \in {"p?", "p-pos", "p-f-pos", "p-g-pos"} -> "p"
      [] s \in {"q?", "q-pos", "q-f-pos"} -> "q"

\* x[0] as the except clause of lisp_eval evaluates it: [ok, v]
Head0(x) ==
    CASE x.k = "str" ->
            IF x.s = "" THEN [ok |-> FALSE, v |-> Raise("IndexError", "string index out of range")]
            ELSE [ok |-> TRUE, v |-> Str(FirstChar(x.s))]
      [] x.k = "list" ->
            IF x.a = <<>> THEN [ok |-> FALSE, v |-> Raise("IndexError", "list index out of range")]
            ELSE [ok |-> TRUE, v |-> x.a[1]]
      [] OTHER -> [ok |-> FALSE,
                   v |-> Raise("TypeError", "'" \o PyType(x) \o "' object is not subscriptable")]

\* re.match(r"(?:.+)(\(.+?\): .+?$)", str(e)).group(1) on the pieces of a
\* message: the last context prefix that has text before it and after it,
\* with everything that follows; <<>> when there is no match
RegexGroup(chunks) ==
    LET I == {i \in 2..Len(chunks) - 1 : chunks[i].n = 1}
        m == CHOOSE i \in I : \A j \in I : j <= i
    IN  IF I = {} THEN <<>> ELSE SubSeq(chunks, m, Len(chunks))

\* the except clause of lisp_eval: the exception that leaves the activation
\* of x when e was raised in it
Wrap(x, e) ==
    LET long == Len(MsgOf(e)) > MsgLimit
        grp == RegexGroup(e.a)
        body == IF long THEN <<Text("...")>> \o grp ELSE e.a
        h == Head0(x)
    IN  IF long /\ grp = <<>>
        THEN Raise("AttributeError", "'NoneType' object has no attribute 'group'")
        ELSE IF h.ok THEN CCSE(<<Prefix("(" \o PyStr(h.v) \o "): ")>> \o body)
        ELSE IF h.v.s = "IndexError" THEN CCSE(body)
        ELSE h.v

----------------------------------------------------------------------------
(* The primitives of standard_env the sessions call: [ok, v] is the value *)
(* returned (ok) or the exception raised.                                  *)

Ok(v) == [ok |-> TRUE, v |-> v]
Fail(e) == [ok |-> FALSE, v |-> e]

IsNumber(v) == v.k \in {"int", "bool"}

\* a == b (numbers by value, a bool being a number)
PyEq(a, b) == IF IsNumber(a) /\ IsNumber(b) THEN a.n = b.n ELSE a = b

ApplyPrim(name, args) ==
    CASE name = "+" ->       \* op.add
            IF Len(args) # 2
            THEN Fail(Raise("TypeError", "add expected 2 arguments, got " \o ToString(Len(args))))
            ELSE IF IsNumber(args[1]) /\ IsNumber(args[2]) THEN Ok(Num(args[1].n + args[2].n))
            ELSE IF args[1].k = "str" /\ args[2].k = "str" THEN Ok(Str(args[1].s \o args[2].s))
            ELSE IF args[1].k = "list" /\ args[2].k = "list" THEN Ok(List(args[1].a \o args[2].a))
            ELSE Fail(Raise("TypeError", "unsupported operand type(s) for +: '" \o PyType(args[1])
                                         \o "' and '" \o PyType(args[2]) \o "'"))
      [] name = ">" ->       \* op.gt (the sessions compare numbers only)
            IF Len(args) # 2
            THEN Fail(Raise("TypeError", "gt expected 2 arguments, got " \o ToString(Len(args))))
            ELSE IF IsNumber(args[1]) /\ IsNumber(args[2]) THEN Ok(Bool(args[1].n > args[2].n))
            ELSE Fail(Raise("TypeError", "'>' not supported between instances of '"
                                         \o PyType(args[1]) \o "' and '" \o PyType(args[2]) \o "'"))
      [] name = "do" ->      \* lambda *x: x[-1]
            IF args = <<>> THEN Fail(Raise("IndexError", "tuple index out of range"))
            ELSE Ok(args[Len(args)])
      [] name = "car" ->     \* lambda x: x[0]
            IF Len(args) # 1
            THEN Fail(Raise("TypeError", "<lambda>() takes 1 positional argument but "
                                         \o ToString(Len(args)) \o " were given"))
            ELSE Head0(args[1])
      [] name = "list" ->    \* lambda *x: list(x)
            Ok(List(args))
      [] name = "arr[index]" ->    \* lambda arr, index: arr[index], by make_functions
            IF Len(args) # 2
            THEN Fail(Raise("TypeError", "<lambda>() takes 2 positional arguments but "
                                         \o ToString(Len(args)) \o " were given"))
            ELSE IF args[1].k # "list"
            THEN Fail(Raise("TypeError", "'" \o PyType(args[1]) \o "' object is not subscriptable"))
            ELSE IF ~IsNumber(args[2])
            THEN Fail(Raise("TypeError", "list indices must be integers or slices, not "
                                         \o PyType(args[2])))
            ELSE IF args[2].n \in 0..(Len(args[1].a) - 1) THEN Ok(args[1].a[args[2].n + 1])
            ELSE IF -args[2].n \in 1..Len(args[1].a)
            THEN Ok(args[1].a[Len(args[1].a) + args[2].n + 1])
            ELSE Fail(Raise("IndexError", "list index out of range"))

----------------------------------------------------------------------------
(* The interpreter state *)

Frame(x, env, pc, acc, i) == [x |-> x, env |-> env, pc |-> pc, acc |-> acc, i |-> i]
Ctl(mode, x, env) == [mode |-> mode, x |-> x, env |-> env]

Top == stack[Len(stack)]
Pop == SubSeq(stack, 1, Len(stack) - 1)
Push(f) == Append(stack, f)
Retop(f) == Append(Pop, f)

\* the history of entries to lisp_eval
Log(x, env) ==
    IF Len(evlog) < MaxLog THEN Append(evlog, [x |-> x, env |-> env]) ELSE evlog

\* the head symbols with bespoke evaluator logic
Reserved == {"args", "quote", ">>", "if", "define", "def", ":=", "lambda",
             "check-expect", "check-within", "member?", "struct", "while",
             "print", "try", "unquote"}

IsForm(x, heads) ==
    x.k = "list" /\ x.a # <<>> /\ x.a[1].k = "str" /\ x.a[1].s \in heads

\* tuple unpacking of a form into n names
UnpackError(x, n) ==
    IF Len(x.a) < n
    THEN Raise("ValueError", "not enough values to unpack (expected " \o ToString(n)
                             \o ", got " \o ToString(Len(x.a)) \o ")")
    ELSE Raise("ValueError", "too many values to unpack (expected " \o ToString(n) \o ")")

\* an unpacking that takes the first n items and drops the others
UnpacksFirst(x, n) == Len(x.a) >= n

\* the form x unpacks into n names
Unpacks(x, n) == Len(x.a) = n

\* the exception lisp_eval raises while dispatching on x, before it
\* evaluates any sub-expression; None when there is none
DispatchError(x) ==
    CASE x.k # "list" -> None
      [] x.a = <<>> -> Raise("IndexError", "list index out of range")
      [] IsForm(x, {"quote"}) /\ ~Unpacks(x, 2) -> UnpackError(x, 2)
      [] IsForm(x, {"if", "check-within"}) /\ ~Unpacks(x, 4) -> UnpackError(x, 4)
      [] IsForm(x, {"define", "def", ":=", "lambda", "check-expect", "member?", "struct"})
           /\ ~Unpacks(x, 3) -> UnpackError(x, 3)
      [] IsForm(x, {":="}) /\ Len(x.a) = 3 /\ x.a[2].k \in {"int", "bool", "none"} ->
            Raise("TypeError", "argument of type '" \o PyType(x.a[2]) \o "' is not iterable")
      [] IsForm(x, {"while"}) /\ Len(x.a) < 2 -> Raise("IndexError", "list index out of range")
      [] IsForm(x, {"try"}) /\ Len(x.a) < 2 ->
            Raise("ValueError", "not enough values to unpack (expected at least 1, got 0)")
      [] OTHER -> None

Entering == ctl.mode = "eval" /\ ~TimedOut(envs, ctl.env, now)
Dispatch(heads) == Entering /\ DispatchError(ctl.x) = None /\ IsForm(ctl.x, heads)

Same == UNCHANGED <<now, session, tl, results, text, cc, music>>
Logged == evlog' = Log(ctl.x, ctl.env)

----------------------------------------------------------------------------
(* lisp_eval: entry *)

\* the budget test fails: raised before the try block, so this activation
\* adds no context prefix
EvalTimeout ==
    /\ ctl.mode = "eval"
    /\ TimedOut(envs, ctl.env, now)
    /\ ctl' = Ctl("raise", TimeoutError, ctl.env)
    /\ Logged
    /\ UNCHANGED <<envs, stack>> /\ Same

\* variable reference (the symbols of the sessions carry no ':' index)
EvalSymbol ==
    /\ Entering
    /\ ctl.x.k = "str"
    /\ LET home == find(envs, ctl.env, ctl.x.s)
       IN  ctl' = IF home # 0
                  THEN Ctl("ret", envs[home].vars[ctl.x.s], ctl.env)
                  ELSE Ctl("raise", Wrap(ctl.x, UndefinedVar(ctl.x.s)), ctl.env)
    /\ Logged
    /\ UNCHANGED <<envs, stack>> /\ Same

\* constant literal
EvalLiteral ==
    /\ Entering
    /\ ctl.x.k \notin {"str", "list"}
    /\ ctl' = Ctl("ret", ctl.x, ctl.env)
    /\ Logged
    /\ UNCHANGED <<envs, stack>> /\ Same

\* an empty form, or a special form that cannot be unpacked
EvalMalformed ==
    /\ Entering
    /\ DispatchError(ctl.x) # None
    /\ ctl' = Ctl("raise", Wrap(ctl.x, DispatchError(ctl.x)), ctl.env)
    /\ Logged
    /\ UNCHANGED <<envs, stack>> /\ Same

EvalQuote ==
    /\ Dispatch({"quote"})
    /\ ctl' = Ctl("ret", ctl.x.a[2], ctl.env)
    /\ Logged
    /\ UNCHANGED <<envs, stack>> /\ Same

\* enter the sub-expression sub of the form in ctl, leaving a frame at pc
Descend(sub, pc, acc, i) ==
    /\ ctl' = Ctl("eval", sub, ctl.env)
    /\ stack' = Push(Frame(ctl.x, ctl.env, pc, acc, i))
    /\ Logged
    /\ UNCHANGED envs /\ Same

EvalIf == Dispatch({"if"}) /\ Descend(ctl.x.a[2], "if_test", <<>>, 2)

EvalDefine ==
    /\ Dispatch({"define", "def"})
    /\ ctl.x.a[2].k = "str"
    /\ Descend(ctl.x.a[3], "define", <<>>, 3)

EvalSet ==
    /\ Dispatch({":="})
    /\ ctl.x.a[2].k = "str"
    /\ Descend(ctl.x.a[3], "set", <<>>, 3)

EvalLambda ==
    /\ Dispatch({"lambda"})
    /\ ctl' = Ctl("ret", Procedure(ctl.x.a[2], ctl.x.a[3], ctl.env), ctl.env)
    /\ Logged
    /\ UNCHANGED <<envs, stack>> /\ Same

EvalWhile == Dispatch({"while"}) /\ Descend(ctl.x.a[2], "while_test", <<>>, 2)

EvalTry == Dispatch({"try"}) /\ Descend(ctl.x.a[2], "try_body", <<>>, 2)

\* the predicate make_functions builds: lambda arr: len(arr) == lisp_eval(create)
Predicate(create) == V("pred", 0, create, <<>>)

\* 'make-' + name and name + '-' + par + '-pos' with something that is no str
ConcatError(v) ==
    Raise("TypeError", "can only concatenate str (not \"" \o PyType(v) \o "\") to str")

\* make_functions(name, param, env): [ok, v] with the bindings it puts
\* into env or the exception it raises before it binds anything (param is
\* a list in the sessions)
make_functions(name, param) ==
    LET n == Len(param.a)
        bad == {i \in 1..n : param.a[i].k # "str"}
        key(i) == name.s \o "-" \o param.a[i].s \o "-pos"
        keys == {key(i) : i \in 1..n}
        last(k) == CHOOSE i \in 1..n : key(i) = k /\ \A j \in 1..n : key(j) = k => j <= i
        fixed == {name.s \o "-pos", name.s \o "?", "make-" \o name.s}
    IN  IF name.k # "str" THEN Fail(ConcatError(name))
        ELSE IF param.k # "list"
        THEN Fail(Raise("TypeError", "'" \o PyType(param) \o "' object is not iterable"))
        ELSE IF bad # {} THEN Fail(ConcatError(param.a[CHOOSE i \in bad : \A j \in bad : i <= j]))
        ELSE Ok([nm \in keys \cup fixed |->
                   IF nm = "make-" \o name.s THEN Num(n)
                   ELSE IF nm = name.s \o "?" THEN Predicate("make-" \o name.s)
                   ELSE IF nm = name.s \o "-pos" THEN Prim("arr[index]")
                   ELSE Num(last(nm) - 1)])

\* (struct name (fields)): neither sub-expression is evaluated
EvalStruct ==
    /\ Dispatch({"struct"})
    /\ LET r == make_functions(ctl.x.a[2], ctl.x.a[3])
       IN  IF r.ok
           THEN /\ envs' = [envs EXCEPT ![ctl.env].vars = Update(@, r.v)]
                /\ ctl' = Ctl("ret", None, ctl.env)
           ELSE /\ envs' = envs
                /\ ctl' = Ctl("raise", Wrap(ctl.x, r.v), ctl.env)
    /\ Logged
    /\ UNCHANGED stack /\ Same

\* check-expect and member?: both operands are evaluated, left to right
EvalCheck == Dispatch({"check-expect", "member?"}) /\ Descend(ctl.x.a[2], "check", <<>>, 2)

\* check-within: var comes first
EvalWithin == Dispatch({"check-within"}) /\ Descend(ctl.x.a[2], "within", <<>>, 1)

\* x[0].startswith('make-'), for the heads of the sessions
StartsWithMake(s) == s \in {"make-p", "make-q"}

\* the head of the form is a symbol that names a constructor
IsMake(x) == x.k = "list" /\ x.a # <<>> /\ x.a[1].k = "str" /\ StartsWithMake(x.a[1].s)

\* procedure call: the head is evaluated first
EvalCall ==
    /\ Entering
    /\ DispatchError(ctl.x) = None
    /\ ctl.x.k = "list"
    /\ ~IsForm(ctl.x, Reserved)
    /\ Descend(ctl.x.a[1], "call", <<>>, 1)

\* (>> method target ...): every sub-expression is evaluated first
EvalAccess ==
    /\ Dispatch({">>"})
    /\ IF Len(ctl.x.a) = 1
       THEN /\ ctl' = Ctl("raise", Wrap(ctl.x, Raise("IndexError", "list index out of range")), ctl.env)
            /\ Logged
            /\ UNCHANGED <<envs, stack>> /\ Same
       ELSE Descend(ctl.x.a[2], "access", <<>>, 2)

\* dict item assignment E[e][var] = v
Bind(E, e, var, v) ==
    [E EXCEPT ![e].vars =
        [nm \in DOMAIN E[e].vars \cup {var} |-> IF nm = var THEN v ELSE E[e].vars[nm]]]

\* what a print form stores: the old value of output, then the line
PrintStore(old, strs) == Str(old.s \o JoinStr(strs, " ") \o "\n")

\* (print a1 ... an):  env.find('output')['output'] += <line>.  The Env is
\* found and the old value of output is read before the arguments are
\* evaluated; both wait in the frame, in front of the argument values.
\* (No activation of lisp_eval lets an IndexError out, so the except
\* clause of the form is never taken.)
EvalPrint ==
    /\ Dispatch({"print"})
    /\ LET home == find(envs, ctl.env, "output")
       IN  IF home = 0
           THEN /\ ctl' = Ctl("raise", Wrap(ctl.x, UndefinedVar("output")), ctl.env)
                /\ Logged
                /\ UNCHANGED <<envs, stack>> /\ Same
           ELSE IF Len(ctl.x.a) = 1
           THEN /\ envs' = Bind(envs, home, "output",
                                PrintStore(envs[home].vars["output"], <<>>))
                /\ ctl' = Ctl("ret", None, ctl.env)
                /\ Logged
                /\ UNCHANGED stack /\ Same
           ELSE Descend(ctl.x.a[2], "print",
                        <<Num(home), envs[home].vars["output"]>>, 2)

----------------------------------------------------------------------------
(* lisp_eval: a sub-expression has returned a value to the frame on top *)

Returning(pcs) == ctl.mode = "ret" /\ stack # <<>> /\ Top.pc \in pcs

\* the branches of an if form taken the wrong way round
IfBranchSwapped(x, test) == IF Truthy(test) THEN x.a[4] ELSE x.a[3]

\* the branch an if form goes on with, given the value of its test
IfBranch(x, test) == IF Truthy(test) THEN x.a[3] ELSE x.a[4]

RetIfTest ==
    /\ Returning({"if_test"})
    /\ ctl' = Ctl("eval", IfBranch(Top.x, ctl.x), Top.env)
    /\ stack' = Retop([Top EXCEPT !.pc = "tail"])
    /\ UNCHANGED <<envs, evlog>> /\ Same

\* 'return lisp_eval(...)': the value is handed on unchanged
RetTail ==
    /\ Returning({"tail", "try_body"})
    /\ ctl' = Ctl("ret", ctl.x, Top.env)
    /\ stack' = Pop
    /\ UNCHANGED <<envs, evlog>> /\ Same

\* a define that writes where the name is already bound, like :=
DefineTargetOutward(E, env, var) == IF find(E, env, var) # 0 THEN find(E, env, var) ELSE env

\* the Env a (define var exp) evaluated in env writes to
DefineTarget(E, env, var) == env

RetDefine ==
    /\ Returning({"define"})
    /\ envs' = Bind(envs, DefineTarget(envs, Top.env, Top.x.a[2].s), Top.x.a[2].s, ctl.x)
    /\ ctl' = Ctl("ret", None, Top.env)
    /\ stack' = Pop
    /\ UNCHANGED evlog /\ Same

\* env.find(var)[var] = <value>: find runs after the value is computed
RetSet ==
    /\ Returning({"set"})
    /\ LET var == Top.x.a[2].s
           home == find(envs, Top.env, var)
       IN  IF home # 0
           THEN /\ envs' = Bind(envs, home, var, ctl.x)
                /\ ctl' = Ctl("ret", None, Top.env)
           ELSE /\ envs' = envs
                /\ ctl' = Ctl("raise", Wrap(Top.x, UndefinedVar(var)), Top.env)
    /\ stack' = Pop
    /\ UNCHANGED evlog /\ Same

RetWhileTest ==
    /\ Returning({"while_test"})
    /\ IF ~Truthy(ctl.x)
       THEN ctl' = Ctl("ret", None, Top.env) /\ stack' = Pop
       ELSE IF Len(Top.x.a) < 3
       THEN /\ ctl' = Ctl("raise", Wrap(Top.x, Raise("IndexError", "list index out of range")), Top.env)
            /\ stack' = Pop
       ELSE /\ ctl' = Ctl("eval", Top.x.a[3], Top.env)
            /\ stack' = Retop([Top EXCEPT !.pc = "while_body"])
    /\ UNCHANGED <<envs, evlog>> /\ Same

RetWhileBody ==
    /\ Returning({"while_body"})
    /\ ctl' = Ctl("eval", Top.x.a[2], Top.env)
    /\ stack' = Retop([Top EXCEPT !.pc = "while_test"])
    /\ UNCHANGED <<envs, evlog>> /\ Same

\* the values collected by the frame on top, the one just returned included
Vals == Append(Top.acc, ctl.x)

\* the next sub-expression of a procedure call, of a >> form or of a print
\* form, left to right
RetNextArg ==
    /\ Returning({"call", "access", "print", "make", "check"})
    /\ Top.i < Len(Top.x.a)
    /\ ~(Top.pc = "call" /\ IsMake(Top.x))
    /\ ctl' = Ctl("eval", Top.x.a[Top.i + 1], Top.env)
    /\ stack' = Retop([Top EXCEPT !.acc = Vals, !.i = Top.i + 1])
    /\ UNCHANGED <<envs, evlog>> /\ Same

\* a call that does not wait for all of its arguments
CallReadyEarly == Returning({"call"}) /\ Top.i >= 2 /\ ~IsMake(Top.x)

CallReady == Returning({"call"}) /\ Top.i = Len(Top.x.a) /\ ~IsMake(Top.x)

\* proc(*args) for a primitive of standard_env
RetCallPrim ==
    /\ CallReady
    /\ Vals[1].k = "prim"
    /\ LET r == ApplyPrim(Vals[1].s, Tail(Vals))
       IN  ctl' = IF r.ok THEN Ctl("ret", r.v, Top.env)
                  ELSE Ctl("raise", Wrap(Top.x, r.v), Top.env)
    /\ stack' = Pop
    /\ UNCHANGED <<envs, evlog>> /\ Same

\* dynamic scoping: the frame of a call chained to the caller's Env
CallOuterCaller(proc, caller) == caller

\* the outer link of the Env a call of proc creates
CallOuter(proc, caller) == proc.n

\* Procedure.__call__: lisp_eval(self.body, Env(self.parms, args, self.env))
RetCallProc ==
    /\ CallReady
    /\ Vals[1].k = "proc"
    /\ Vals[1].a[1].k = "list"
    /\ Len(envs) < MaxEnvs
    /\ envs' = Append(envs, Env(Vals[1].a[1].a, Tail(Vals), CallOuter(Vals[1], Top.env), 0, now))
    /\ ctl' = Ctl("eval", Vals[1].a[2], Len(envs) + 1)
    /\ stack' = Retop([Top EXCEPT !.pc = "tail", !.acc = Vals])
    /\ UNCHANGED evlog /\ Same

\* the bindings of the module-level global_env: the root of the session
\* when that was built without arguments, a standard_env of its own when not
global_env(E) == IF E[1].max_runtime = 0 THEN E[1].vars ELSE StdVars

\* the Env the predicate's lisp_eval(create) runs in: the default argument
PredicateEnv(E, caller) == global_env(E)

\* len(arr) == lisp_eval(create), for the values of the sessions: [ok, v]
ApplyPredicate(pred, args, genv) ==
    IF Len(args) # 1
    THEN Fail(Raise("TypeError", "<lambda>() takes 1 positional argument but "
                                 \o ToString(Len(args)) \o " were given"))
    ELSE IF args[1].k \notin {"list", "str"}
    THEN Fail(Raise("TypeError", "object of type '" \o PyType(args[1]) \o "' has no len()"))
    ELSE IF pred.s \notin DOMAIN genv THEN Fail(Wrap(Str(pred.s), UndefinedVar(pred.s)))
    ELSE Ok(Bool(PyEq(Num(IF args[1].k = "list" THEN Len(args[1].a) ELSE Len(args[1].s)),
                      genv[pred.s])))

\* proc(*args) for the predicate of a struct
RetCallPred ==
    /\ CallReady
    /\ Vals[1].k = "pred"
    /\ LET r == ApplyPredicate(Vals[1], Tail(Vals), PredicateEnv(envs, Top.env))
       IN  ctl' = IF r.ok THEN Ctl("ret", r.v, Top.env)
                  ELSE Ctl("raise", Wrap(Top.x, r.v), Top.env)
    /\ stack' = Pop
    /\ UNCHANGED <<envs, evlog>> /\ Same

\* proc(*args) for a value that is not callable
RetCallBad ==
    /\ CallReady
    /\ Vals[1].k \notin {"prim", "proc", "pred"}
    /\ ctl' = Ctl("raise", Wrap(Top.x, Raise("TypeError",
                    "'" \o PyType(Vals[1]) \o "' object is not callable")), Top.env)
    /\ stack' = Pop
    /\ UNCHANGED <<envs, evlog>> /\ Same

\* a in b, for the containers of the sessions: [ok, v]
Contains(b, a) ==
    CASE b.k = "list" -> Ok(Bool(\E i \in 1..Len(b.a) : PyEq(a, b.a[i])))
      [] b.k \in {"int", "bool", "none", "proc", "prim"} ->
            Fail(Raise("TypeError", "argument of type '" \o PyType(b) \o "' is not iterable"))

\* a <= b and a >= b (the sessions compare numbers only): [ok, v]
Compare(op, a, b) ==
    IF IsNumber(a) /\ IsNumber(b)
    THEN Ok(Bool(IF op = "<=" THEN a.n <= b.n ELSE a.n >= b.n))
    ELSE Fail(Raise("TypeError", "'" \o op \o "' not supported between instances of '"
                                 \o PyType(a) \o "' and '" \o PyType(b) \o "'"))

\* both operands of a check-expect or member? form have their values
RetCheck ==
    /\ Returning({"check"})
    /\ Top.i = Len(Top.x.a)
    /\ LET r == IF IsForm(Top.x, {"check-expect"}) THEN Ok(Bool(PyEq(Vals[1], Vals[2])))
                ELSE Contains(Vals[2], Vals[1])
       IN  ctl' = IF r.ok THEN Ctl("ret", r.v, Top.env)
                  ELSE Ctl("raise", Wrap(Top.x, r.v), Top.env)
    /\ stack' = Pop
    /\ UNCHANGED <<envs, evlog>> /\ Same

\* check-within: var <= upper and var >= lower, with var evaluated for
\* each comparison and the second comparison only after a true first one
RetWithin ==
    /\ Returning({"within"})
    /\ LET le == Compare("<=", Vals[1], Vals[2])
           ge == Compare(">=", Vals[3], Vals[4])
           next(sub) == /\ ctl' = Ctl("eval", sub, Top.env)
                        /\ stack' = Retop([Top EXCEPT !.acc = Vals, !.i = Top.i + 1])
           done(r) == /\ ctl' = IF r.ok THEN Ctl("ret", r.v, Top.env)
                                 ELSE Ctl("raise", Wrap(Top.x, r.v), Top.env)
                      /\ stack' = Pop
       IN  CASE Top.i = 1 -> next(Top.x.a[4])
             [] Top.i = 2 -> IF le.ok /\ Truthy(le.v) THEN next(Top.x.a[2]) ELSE done(le)
             [] Top.i = 3 -> next(Top.x.a[3])
             [] Top.i = 4 -> done(ge)
    /\ UNCHANGED <<envs, evlog>> /\ Same

\* a constructor that stores whatever number of values it is given
ArityAny(proc, args) == TRUE

\* not (len(args) != proc)
ArityMatches(proc, args) == proc.k \in {"int", "bool"} /\ proc.n = Len(args)

\* the dict key a value makes: a symbol is its own key, any other hashable
\* value is a key that no symbol names
Key(v) == IF v.k = "str" THEN v.s ELSE "<" \o PyRepr(v) \o ">"

\* the rest of the make- branch once the values args are there: the arity
\* test and env[x[1]] = args in the Env of the activation f
MakeStore(f, proc, args) ==
    IF ~ArityMatches(proc, args)
    THEN [ctl |-> Ctl("ret", None, f.env), envs |-> envs]
    ELSE IF Len(f.x.a) < 2
    THEN [ctl |-> Ctl("raise", Wrap(f.x, Raise("IndexError", "list index out of range")), f.env),
          envs |-> envs]
    ELSE IF f.x.a[2].k = "list"
    THEN [ctl |-> Ctl("raise", Wrap(f.x, Raise("TypeError", "unhashable type: 'list'")), f.env),
          envs |-> envs]
    ELSE [ctl |-> Ctl("ret", None, f.env),
          envs |-> Bind(envs, f.env, Key(f.x.a[2]), List(args))]

\* the head of a make- form has its value: the sub-expressions after the
\* target are evaluated next, the target itself is not
RetMakeHead ==
    /\ Returning({"call"})
    /\ IsMake(Top.x)
    /\ IF Len(Top.x.a) >= 3
       THEN /\ ctl' = Ctl("eval", Top.x.a[3], Top.env)
            /\ stack' = Retop([Top EXCEPT !.pc = "make", !.acc = <<ctl.x>>, !.i = 3])
            /\ envs' = envs
       ELSE /\ ctl' = MakeStore(Top, ctl.x, <<>>).ctl
            /\ envs' = MakeStore(Top, ctl.x, <<>>).envs
            /\ stack' = Pop
    /\ UNCHANGED evlog /\ Same

\* the last value of a make- form is there
RetMake ==
    /\ Returning({"make"})
    /\ Top.i = Len(Top.x.a)
    /\ ctl' = MakeStore(Top, Vals[1], Tail(Vals)).ctl
    /\ envs' = MakeStore(Top, Vals[1], Tail(Vals)).envs
    /\ stack' = Pop
    /\ UNCHANGED evlog /\ Same

\* getattr(obj, name)() for the methods the sessions name: [ok, v]
GetAttrCall(obj, name) ==
    CASE name.k # "str" ->
            Fail(Raise("TypeError", "getattr(): attribute name must be string"))
      [] name.s = "copy" /\ obj.k = "list" -> Ok(obj)
      [] name.s = "__len__" /\ obj.k = "list" -> Ok(Num(Len(obj.a)))
      [] name.s = "__len__" /\ obj.k = "str" -> Ok(Num(Len(obj.s)))
      [] name.s \in {"copy", "__len__", "nosuchmethod"} ->
            Fail(CCSE(<<Text("<class '" \o PyType(obj) \o "'> has no method " \o name.s)>>))

\* getattr(a[1], a[0])(*ar, **kw), the sessions passing no ar and no kw
RetAccess ==
    /\ Returning({"access"})
    /\ Top.i = Len(Top.x.a)
    /\ Len(Vals) <= 2
    /\ LET r == IF Len(Vals) < 2
                THEN Fail(Raise("IndexError", "list index out of range"))
                ELSE GetAttrCall(Vals[2], Vals[1])
       IN  ctl' = IF r.ok THEN Ctl("ret", r.v, Top.env)
                  ELSE Ctl("raise", Wrap(Top.x, r.v), Top.env)
    /\ stack' = Pop
    /\ UNCHANGED <<envs, evlog>> /\ Same

----------------------------------------------------------------------------
(* lisp_eval: a sub-expression has raised into the frame on top *)

Raising == ctl.mode = "raise" /\ stack # <<>>

\* a try form that never evaluates its fallback
TryOnErrorNoFallback(f, e) == [ctl |-> Ctl("ret", e, f.env), stack |-> Pop]

\* the except clause of the try form f for the exception e: the control
\* and the stack it goes on with
TryOnError(f, e) ==
    IF Len(f.x.a) >= 3
    THEN [ctl |-> Ctl("eval", f.x.a[3], f.env), stack |-> Retop([f EXCEPT !.pc = "tail"])]
    ELSE [ctl |-> Ctl("ret", e, f.env), stack |-> Pop]

RaiseTry ==
    /\ Raising
    /\ Top.pc = "try_body"
    /\ ctl' = TryOnError(Top, ctl.x).ctl
    /\ stack' = TryOnError(Top, ctl.x).stack
    /\ UNCHANGED <<envs, evlog>> /\ Same

\* 'except Exception as e' at the end of lisp_eval
RaiseWrap ==
    /\ Raising
    /\ Top.pc # "try_body"
    /\ ctl' = Ctl("raise", Wrap(Top.x, ctl.x), Top.env)
    /\ stack' = Pop
    /\ UNCHANGED <<envs, evlog>> /\ Same

\* the last argument of a print form has its value: the line is joined
\* from str() of the values and stored after the old value of output
RetPrint ==
    /\ Returning({"print"})
    /\ Top.i = Len(Top.x.a)
    /\ LET home == Vals[1].n
           old == Vals[2]
           strs == [j \in 1..(Len(Vals) - 2) |-> PyStr(Vals[j + 2])]
       IN  envs' = Bind(envs, home, "output", PrintStore(old, strs))
    /\ ctl' = Ctl("ret", None, Top.env)
    /\ stack' = Pop
    /\ UNCHANGED evlog /\ Same

----------------------------------------------------------------------------
(* The embedding layer: top-level calls of lisp_eval on one root Env *)

TopCall ==
    /\ ctl.mode = "idle"
    /\ tl < Len(session)
    /\ tl' = tl + 1
    /\ ctl' = Ctl("eval", session[tl + 1], 1)
    /\ UNCHANGED <<envs, stack, now, session, results, evlog, text, cc, music>>

\* a top-level call returns to the embedding layer, or raises into it
Finish ==
    /\ ctl.mode \in {"ret", "raise"}
    /\ stack = <<>>
    /\ results' = Append(results, [ok |-> ctl.mode = "ret", v |-> ctl.x])
    /\ ctl' = Ctl("idle", None, 0)
    /\ UNCHANGED <<envs, stack, now, session, tl, evlog, text, cc, music>>

\* time() moves on
Tick ==
    /\ now < MaxClock
    /\ now' = now + 1
    /\ UNCHANGED <<envs, ctl, stack, session, tl, results, evlog, text, cc, music>>

----------------------------------------------------------------------------
(* The sessions: parsed expressions, as read_from_tokens builds them *)

S(s) == Str(s)
N(i) == Num(i)
L(a) == List(a)
Q(s) == L(<<S("quote"), S(s)>>)
True == Bool(TRUE)

DefineY == L(<<S("define"), S("y"), N(1)>>)
DefineX == L(<<S("define"), S("x"), N(5)>>)
DefineA == L(<<S("define"), S("a"), N(1)>>)
DefineB == L(<<S("define"), S("b"), N(2)>>)
Lambda(parms, body) == L(<<S("lambda"), L(parms), body>>)

\* C2: f is defined where y = 1 and called from a frame where y = 2
SessScope ==
    <<DefineY,
      L(<<S("define"), S("f"), Lambda(<<>>, S("y"))>>),
      L(<<Lambda(<<S("y")>>, L(<<S("f")>>)), N(2)>>)>>

\* y is looked up through two frames that both hold bindings
SessNested ==
    <<DefineY,
      L(<<Lambda(<<S("a")>>,
                 L(<<Lambda(<<S("b")>>, L(<<S("+"), S("y"), L(<<S("+"), S("a"), S("b")>>)>>)),
                     N(2)>>)),
          N(1)>>)>>

\* y is looked up through the frame of a zero-parameter procedure
SessEmptyFrame ==
    <<DefineY,
      L(<<Lambda(<<>>, L(<<Lambda(<<S("a")>>, S("y")), N(1)>>))>>)>>

SessUndefined == <<S("nosuch"), L(<<S("+"), N(1), S("nosuch")>>)>>

Gt(a, b) == L(<<S(">"), N(a), N(b)>>)

WhileTrue == L(<<S("while"), True, N(1)>>)
SessWhile == <<WhileTrue>>
SessWhileDefine == <<L(<<S("while"), N(1), DefineA>>)>>
SessWhileFalse == <<L(<<S("while"), S("argstring"), DefineA>>), S("a")>>
\* a test that is computed, and true, every time round
SessWhileExpr == <<L(<<S("while"), Gt(2, 1), DefineA>>)>>

\* a loop inside a procedure body
SessProcLoop == <<L(<<Lambda(<<>>, WhileTrue)>>)>>

SessErrors ==
    <<L(<<S("if"), L(<<S("car"), N(5)>>), N(1), N(2)>>),
      L(<<S("if"), N(1)>>),
      L(<<>>),
      L(<<N(5), N(1)>>),
      L(<<S(">>"), Q("nosuchmethod"), N(5)>>),
      L(<<S("do"), L(<<S(">>"), Q("__len__"), Q("abc")>>)>>)>>

SessLong == <<S(LongSym), L(<<S("do"), S(LongSym)>>), L(<<S(":="), S(LongSym), N(1)>>)>>

SessTry ==
    <<L(<<S("try"), N(1), DefineA>>),
      S("a"),
      L(<<S("try"), S("nosuch"), DefineB>>),
      S("b"),
      L(<<S("try"), S("nosuch")>>),
      L(<<S("try"), L(<<S("car"), N(5)>>), N(7)>>)>>

\* a try form evaluated in the frame of a procedure
SessTryFrame ==
    <<L(<<Lambda(<<S("p")>>,
                 L(<<S("do"), L(<<S("try"), S("nosuch"), L(<<S("define"), S("b"), S("p")>>)>>),
                     S("b")>>)),
          N(3)>>),
      S("b")>>

SessDefine ==
    <<L(<<S("define"), S("v"), N(1)>>),
      L(<<Lambda(<<S("a")>>, L(<<S("do"), L(<<S("define"), S("v"), N(2)>>), S("v")>>)), N(0)>>),
      S("v"),
      L(<<S("def"), S("v"), N(3)>>),
      S("v")>>

SetX(e) == L(<<S(":="), S("x"), e>>)

SessSet == <<DefineX, SetX(L(<<S("+"), S("x"), N(1)>>)), S("x")>>
SessSetUndefined == <<L(<<S(":="), S("nosuch"), N(1)>>), S("nosuch")>>
SessSetOuter == <<DefineX, L(<<Lambda(<<S("a")>>, SetX(N(9))), N(0)>>), S("x")>>
SessSetShadow ==
    <<DefineX,
      L(<<Lambda(<<S("x")>>, L(<<S("do"), SetX(N(9)), S("x")>>)), N(0)>>),
      S("x")>>
SessSetEmptyFrame ==
    <<DefineX,
      L(<<Lambda(<<>>, L(<<Lambda(<<S("a")>>, SetX(N(9))), N(0)>>))>>),
      S("x")>>

IfForm(test) == L(<<S("if"), test, DefineA, DefineB>>)
SessIfTrue == <<IfForm(L(<<S(">"), N(2), N(1)>>)), S("a"), S("b")>>
SessIfFalse == <<IfForm(L(<<S(">"), N(1), N(2)>>)), S("a"), S("b")>>
\* the test has a side effect: it counts its own evaluations in x
SessIfCount ==
    <<L(<<S("define"), S("x"), N(0)>>),
      IfForm(L(<<S("do"), SetX(L(<<S("+"), S("x"), N(1)>>)), S("x")>>)),
      S("x")>>

ProcF ==
    Lambda(<<S("p"), S("q")>>,
           L(<<S("do"), L(<<S("define"), S("z"), S("p")>>), L(<<S("list"), S("z"), S("q")>>)>>))
SessProc ==
    <<L(<<S("define"), S("f"), ProcF>>),
      L(<<S("f"), N(1), N(2)>>),
      L(<<S("f"), N(3), N(4)>>),
      S("z")>>

\* fewer and more arguments than parameters
SessProcArity ==
    <<L(<<S("define"), S("f"), ProcF>>),
      L(<<S("f"), N(1)>>),
      L(<<Lambda(<<S("p")>>, S("p")), N(1), N(2)>>)>>

PrintForm(args) == L(<<S("print")>> \o args)
DoForm(args) == L(<<S("do")>> \o args)

\* C18: two prints in a row, the second without arguments
SessPrint == <<PrintForm(<<N(1), Q("a b"), True>>), PrintForm(<<>>), S("output")>>

\* C18: a print whose argument prints
SessPrintNested ==
    <<PrintForm(<<N(0)>>), PrintForm(<<DoForm(<<PrintForm(<<N(1)>>), N(2)>>)>>), S("output")>>

\* C18: a print of a print
SessPrintPrint == <<PrintForm(<<PrintForm(<<N(1)>>)>>), S("output")>>

\* C18: a print whose second argument fails, then a print
SessPrintError == <<PrintForm(<<N(1), S("nosuch")>>), PrintForm(<<N(2)>>), S("output")>>

\* C18: output bound in a call frame, and print below a call without parameters
SessPrintFrame ==
    <<L(<<Lambda(<<S("output")>>, DoForm(<<PrintForm(<<N(5)>>), S("output")>>)), Q("L:")>>),
      L(<<Lambda(<<>>, PrintForm(<<N(6)>>))>>),
      S("output")>>

\* C22: arguments with effects the later arguments see
SessCallOrder ==
    <<L(<<S("list"), DefineA, S("a"), L(<<S("define"), S("a"), N(2)>>), S("a")>>),
      L(<<Lambda(<<S("p"), S("q")>>, L(<<S("list"), S("q"), S("p")>>)),
          L(<<S("define"), S("a"), N(3)>>), S("a")>>)>>

\* C22: an argument that fails before an argument with an effect, and a
\* head that fails
SessCallFail ==
    <<L(<<S("list"), DefineA, S("nosuch"), DefineB>>), S("a"), S("b"),
      L(<<S("nosuch"), DefineB>>), S("b")>>

DefineMakeP == L(<<S("define"), S("make-p"), N(2)>>)

\* C23: a constructor given as many values as its arity, fewer and more
SessMake ==
    <<DefineMakeP,
      L(<<S("make-p"), S("t"), N(1), L(<<S("+"), N(1), N(1)>>)>>), S("t"),
      L(<<S("make-p"), S("u"), N(1)>>), S("u"),
      L(<<S("make-p"), S("v"), N(1), N(2), N(3)>>), S("v")>>

\* C23: a constructor below a call, without values, and without a target
SessMakeFrame ==
    <<DefineMakeP,
      L(<<Lambda(<<S("a")>>, DoForm(<<L(<<S("make-p"), S("t"), S("a"), S("a")>>), S("t")>>)),
          N(7)>>),
      S("t"),
      L(<<S("make-p"), S("u")>>), L(<<S("make-p")>>),
      L(<<S("define"), S("make-q"), N(0)>>), L(<<S("make-q"), S("u")>>), S("u"),
      L(<<S("make-q")>>), L(<<S("make-q"), L(<<>>)>>)>>

Form(head, args) == L(<<S(head)>> \o args)

\* C24: the special forms with a sub-expression too few; the sub-expression
\* left would bind a
SessTooFew ==
    <<Form("if", <<DefineA, DefineA>>), Form("define", <<S("a")>>), Form("def", <<S("a")>>),
      Form(":=", <<S("output")>>), Form("lambda", <<L(<<S("a")>>)>>),
      Form("check-expect", <<DefineA>>), Form("member?", <<DefineA>>),
      Form("struct", <<S("p")>>), Form("quote", <<>>),
      Form("check-within", <<DefineA, DefineA>>), S("a")>>

\* C24: the special forms with a sub-expression too many
SessTooMany ==
    <<Form("if", <<True, DefineA, DefineA, DefineA>>), Form("define", <<S("a"), N(1), N(2)>>),
      Form("def", <<S("a"), N(1), N(2)>>), Form(":=", <<S("output"), N(1), N(2)>>),
      Form("lambda", <<L(<<S("a")>>), S("a"), S("a")>>),
      Form("check-expect", <<DefineA, DefineA, DefineA>>),
      Form("member?", <<DefineA, L(<<S("list")>>), DefineA>>),
      Form("quote", <<S("a"), S("b")>>),
      Form("check-within", <<DefineA, DefineA, DefineA, DefineA>>),
      S("a"), S("output")>>

\* the tests with the right number of sub-expressions
SessChecks ==
    <<Form("check-expect", <<Form("+", <<N(1), N(1)>>), N(2)>>),
      Form("check-expect", <<N(1), True>>),
      Form("member?", <<N(2), Form("list", <<N(1), N(2)>>)>>),
      Form("member?", <<N(2), N(1)>>),
      Form("check-within", <<N(2), N(1), N(3)>>),
      Form("check-within", <<N(4), N(1), N(3)>>),
      Form("check-within", <<N(0), S("nosuch"), N(3)>>),
      Form("check-within", <<N(0), N(1), Q("a")>>)>>

\* C25: a loop that only the budget ends, inside a try form without and
\* with a fallback
SessTryLoop == <<Form("try", <<WhileTrue>>)>>
SessTryLoopFallback == <<Form("try", <<WhileTrue, N(7)>>)>>

\* C26: a struct of two fields, its bindings, a value of it and its predicate
SessStruct ==
    <<Form("struct", <<S("p"), L(<<S("f"), S("g")>>)>>),
      S("p-f-pos"), S("p-g-pos"), S("make-p"),
      Form("make-p", <<S("t"), N(1), N(2)>>),
      Form("p?", <<S("t")>>), Form("p?", <<Form("list", <<N(1)>>)>>),
      Form("p-pos", <<S("t"), S("p-g-pos")>>)>>

\* a struct without fields made in the frame of a call, and structs that
\* cannot be made
SessStructFrame ==
    <<L(<<Lambda(<<>>, DoForm(<<Form("struct", <<S("q"), L(<<>>)>>),
                               Form("q?", <<Form("list", <<>>)>>)>>))>>),
      S("make-q"),
      Form("struct", <<N(1), L(<<S("f")>>)>>), Form("struct", <<S("q"), N(1)>>),
      Form("struct", <<S("q"), L(<<S("f"), N(1)>>)>>), S("q-f-pos"),
      Form("struct", <<S("q"), L(<<S("f"), S("f")>>)>>), S("q-f-pos"),
      Form("q?", <<N(1)>>), Form("q-pos", <<Form("list", <<N(5), N(6)>>), N(-1)>>)>>

Sessions ==
    {SessStruct, SessStructFrame, SessTryLoop, SessTryLoopFallback, SessTooFew, SessTooMany, SessChecks, SessMake, SessMakeFrame, SessCallOrder, SessCallFail, SessPrint, SessPrintNested, SessPrintPrint, SessPrintError, SessPrintFrame,
     SessProcArity, SessWhileExpr, SessScope, SessNested, SessEmptyFrame, SessUndefined, SessWhile,
     SessWhileDefine, SessWhileFalse, SessProcLoop, SessErrors, SessLong,
     SessTry, SessTryFrame, SessDefine, SessSet, SessSetUndefined,
     SessSetOuter, SessSetShadow, SessSetEmptyFrame, SessIfTrue, SessIfFalse,
     SessIfCount, SessProc}

----------------------------------------------------------------------------
(* Specification *)

\* no text-level call and no custom command is in progress
NoText == [call |-> "none"]
NoCc == [call |-> "none"]
NoMusic == [call |-> "none"]

Init ==
    /\ session \in Sessions
    /\ \E budget \in {0, Budget} : envs = <<standard_env(budget, 0)>>
    /\ ctl = Ctl("idle", None, 0)
    /\ stack = <<>>
    /\ now = 0
    /\ tl = 0
    /\ results = <<>>
    /\ evlog = <<>>
    /\ text = NoText
    /\ cc = NoCc
    /\ music = NoMusic

Step ==
    \/ TopCall \/ Finish
    \/ EvalTimeout \/ EvalSymbol \/ EvalLiteral \/ EvalMalformed \/ EvalQuote
    \/ EvalIf \/ EvalDefine \/ EvalSet \/ EvalLambda \/ EvalWhile \/ EvalTry
    \/ EvalCall \/ EvalAccess \/ EvalPrint
    \/ RetIfTest \/ RetTail \/ RetDefine \/ RetSet \/ RetWhileTest
    \/ RetWhileBody \/ RetNextArg \/ RetCallPrim \/ RetCallProc \/ RetCallBad
    \/ RetAccess \/ RetPrint \/ RetMakeHead \/ RetMake
    \/ EvalCheck \/ EvalWithin \/ RetCheck \/ RetWithin
    \/ EvalStruct \/ RetCallPred
    \/ RaiseTry \/ RaiseWrap

Next == Step \/ Tick

Spec == Init /\ [][Next]_vars

\* the interpreter runs on and the clock keeps advancing
FairSpec == Spec /\ WF_vars(Step) /\ WF_vars(Tick)

----------------------------------------------------------------------------
(* Properties *)

\* a step of the interpreter, as opposed to a step of the clock
Acting == now' = now

Names == {"a", "b", "f", "p", "q", "v", "x", "y", "z", "+", "output", "nosuch"}

\* the innermost Env of the chain from e that contains var, 0 if none does
Innermost(E, e, var) ==
    LET c == Chain(E, e)
        I == {i \in 1..Len(c) : var \in DOMAIN E[c[i]].vars}
    IN  IF I = {} THEN 0 ELSE c[CHOOSE i \in I : \A j \in I : i <= j]

\* C1: for every environment chain and every name, Env.find returns the
\* innermost environment of the chain that contains the name, and raises
\* 'undefined var' only when no environment of the chain contains it,
\* chains through an environment without bindings included.
C1_FindInnermost ==
    \A e \in 1..Len(envs) : \A var \in Names :
        find(envs, e, var) = Innermost(envs, e, var)

\* Env.find agrees with the chain as long as every Env it walks through
\* holds a binding
C1_FindNonEmptyChain ==
    \A e \in 1..Len(envs) : \A var \in Names :
        (\A i \in 2..Len(Chain(envs, e)) : EnvTruthy(envs, Chain(envs, e)[i]))
            => find(envs, e, var) = Innermost(envs, e, var)

\* a frame {a: 1} whose outer Env is the empty frame of a zero-parameter call
C1_EmptyFrameReached ==
    \E e \in 2..Len(envs) :
        /\ "a" \in DOMAIN envs[e].vars
        /\ envs[e].outer # 0
        /\ DOMAIN envs[envs[e].outer].vars = {}
        /\ "y" \in DOMAIN envs[1].vars

\* the frame of the lisp_eval activation a Procedure call is waiting for
IsCallFrame(f) == f.pc = "tail" /\ f.acc # <<>> /\ f.acc[1].k = "proc"
BodyEnv(i) == IF i < Len(stack) THEN stack[i + 1].env ELSE ctl.env

\* C2: the body of a Procedure resolves its free variables through the
\* environment in which its lambda form was evaluated, not through the
\* environment of the call site: with y bound to 1 where f is defined and to
\* 2 in the frame f is called from, the call yields 1.
C2_LexicalScope ==
    /\ \A i \in 1..Len(stack) :
          IsCallFrame(stack[i]) => envs[BodyEnv(i)].outer = stack[i].acc[1].n
    /\ (session = SessScope /\ Len(results) >= 3 /\ results[3].ok) => results[3].v = Num(1)

C2_Witness ==
    /\ session = SessScope
    /\ Len(results) = 3
    /\ results[3].ok
    /\ Len(envs) = 3
    /\ envs[1].vars["y"] = Num(1)
    /\ envs[2].vars["y"] = Num(2)
    /\ envs[3].outer = 1

\* the budget of the root of the chain of env has run out
RootExpired(E, env, t) == TimedOut(E, RootOf(E, env), t)

\* C3: once the root environment's nonzero max_runtime is exceeded, every
\* entry to lisp_eval fails with the 'command ran too long' error, entries
\* made in the child environment of a procedure call included.
C3_EveryEntryTimesOut ==
    [][(ctl.mode = "eval" /\ RootExpired(envs, ctl.env, now) /\ Acting)
          => (ctl'.mode = "raise" /\ IsTimeout(ctl'.x))]_vars

\* a while form whose test is a truthy literal or the comparison (> 2 1)
AlwaysTruthyWhile(x) ==
    /\ IsForm(x, {"while"})
    /\ Len(x.a) = 3
    /\ \/ x.a[2].k \notin {"str", "list"} /\ Truthy(x.a[2])
       \/ x.a[2] = Gt(2, 1)

WhileEntered ==
    /\ ctl.mode = "eval"
    /\ ctl.env = 1
    /\ stack = <<>>
    /\ envs[1].max_runtime # 0
    /\ AlwaysTruthyWhile(ctl.x)

TimeoutLeaves == ctl.mode = "raise" /\ stack = <<>> /\ IsTimeout(ctl.x)

\* C4: a while form whose test is always truthy, evaluated directly in a
\* root environment with a nonzero max_runtime, does not run forever: as
\* the clock keeps advancing the evaluation ends in the timeout failure
\* (the bodies of the sessions' loops return every time they are evaluated).
C4_WhileTimesOut == WhileEntered ~> TimeoutLeaves

\* the loop has gone round before the budget ran out
C4_Witness ==
    /\ session = SessWhile
    /\ TimeoutLeaves
    /\ ctl.x = CCSE(<<Prefix("(while): "), Text("The command ran too long.")>>)
    /\ Len(evlog) > 5

\* C5: every failure that leaves lisp_eval while a form is being evaluated
\* is a CustomCommandSyntaxError, whatever raised it; its message starts
\* with the '(<head>): ' prefix of the failing form, the prefixes of the
\* enclosing forms come first and the innermost cause comes last.
C5_FailuresAreWrapped ==
    \A i \in 1..Len(results) :
        (~results[i].ok /\ session[i].k = "list" /\ session[i].a # <<>>
                        /\ results[i].v # TimeoutError) =>
            LET e == results[i].v
            IN  /\ e.s = "CustomCommandSyntaxError"
                /\ Len(e.a) >= 2
                /\ e.a[1] = Prefix("(" \o PyStr(session[i].a[1]) \o "): ")
                /\ \A j \in 1..Len(e.a) : e.a[j].n = 1 <=> j < Len(e.a)

\* a failure with a short message is wrapped
C5_ShortWrapped ==
    /\ session = SessErrors
    /\ Len(results) >= 1
    /\ MsgOf(results[1].v) = "(if): (car): 'int' object is not subscriptable"

\* how often lisp_eval was entered on the expression x
Entries(x) == Cardinality({i \in 1..Len(evlog) : evlog[i].x = x})

Bound(e, var) == var \in DOMAIN envs[e].vars

TryForm(f) == IsForm(f.x, {"try"})

C6_Steps ==
    /\ (Acting /\ stack # <<>> /\ Top.pc = "try_body" /\ ctl.mode = "ret") =>
          /\ ctl'.mode = "ret" /\ ctl'.x = ctl.x
          /\ stack' = Pop /\ envs' = envs /\ evlog' = evlog
    /\ (Acting /\ stack # <<>> /\ Top.pc = "try_body" /\ ctl.mode = "raise"
               /\ Len(Top.x.a) >= 3) =>
          /\ ctl' = Ctl("eval", Top.x.a[3], Top.env)
          /\ Len(stack') = Len(stack) /\ stack'[Len(stack)].x = Top.x
          /\ envs' = envs
    /\ (Acting /\ stack # <<>> /\ TryForm(Top) /\ Top.pc = "tail" /\ ctl.mode = "ret") =>
          /\ ctl'.mode = "ret" /\ ctl'.x = ctl.x
          /\ stack' = Pop /\ envs' = envs
    /\ (Acting /\ stack # <<>> /\ Top.pc = "try_body" /\ ctl.mode = "raise"
               /\ Len(Top.x.a) < 3) =>
          /\ ctl'.mode = "ret" /\ ctl'.x = ctl.x
          /\ stack' = Pop /\ envs' = envs

C6_Results ==
    /\ session = SessTry =>
          /\ ~Bound(1, "a")
          /\ (Len(results) >= 1 /\ results[1].ok) =>
                results[1].v = Num(1) /\ Entries(DefineA) = 0
          /\ (Len(results) >= 3 /\ results[3].ok) =>
                results[3].v = None /\ Bound(1, "b") /\ envs[1].vars["b"] = Num(2)
          /\ Len(results) >= 5 =>
                IF results[5].ok THEN results[5].v.k = "err"
                ELSE results[5].v = TimeoutError
          /\ (Len(results) >= 6 /\ results[6].ok) => results[6].v = Num(7)
    /\ session = SessTryFrame =>
          /\ ~Bound(1, "b")
          /\ (Len(results) >= 1 /\ results[1].ok) =>
                results[1].v = Num(3) /\ envs[2].vars["b"] = Num(3)

\* C6: for (try body fallback), a body that evaluates without failure gives
\* the value of the form and the fallback is not evaluated; when the body
\* fails the fallback is evaluated in the same environment and gives the
\* value of the form.  For (try body) with a failing body the caught error
\* is returned as a value and nothing is raised to the caller.
C6_Try == []C6_Results /\ [][C6_Steps]_vars

C6_Witness ==
    /\ session = SessTry
    /\ Len(results) = 6
    /\ results[1] = Ok(Num(1))
    /\ results[3].ok
    /\ results[4] = Ok(Num(2))
    /\ results[5].ok
    /\ MsgOf(results[5].v) = "(n): undefined var nosuch"
    /\ results[6] = Ok(Num(7))

C7_Steps ==
    (Acting /\ Returning({"define"})) =>
        LET var == Top.x.a[2].s
        IN  /\ Len(envs') = Len(envs)
            /\ \A e \in 1..Len(envs) :
                  IF e = Top.env
                  THEN /\ DOMAIN envs'[e].vars = DOMAIN envs[e].vars \cup {var}
                       /\ envs'[e].vars[var] = ctl.x
                       /\ \A nm \in DOMAIN envs[e].vars \ {var} :
                             envs'[e].vars[nm] = envs[e].vars[nm]
                       /\ envs'[e].outer = envs[e].outer
                  ELSE envs'[e] = envs[e]

C7_Results ==
    session = SessDefine =>
        /\ (Len(results) >= 2 /\ results[2].ok) => results[2].v = Num(2)
        /\ (Len(results) >= 3 /\ results[3].ok) => results[3].v = Num(1)
        /\ (Len(results) >= 5 /\ results[5].ok) => results[5].v = Num(3)

\* C7: (define v e) and (def v e) evaluated in environment E create or
\* overwrite the binding of v in E only; the bindings of every other
\* environment, an existing binding of v in an enclosing one included, are
\* unchanged.
C7_DefineLocal == []C7_Results /\ [][C7_Steps]_vars

C7_Witness ==
    /\ session = SessDefine
    /\ Len(results) = 5
    /\ results[2] = Ok(Num(2))
    /\ results[3] = Ok(Num(1))
    /\ results[5] = Ok(Num(3))
    /\ envs[2].vars["v"] = Num(2)
    /\ envs[1].vars["v"] = Num(3)

C8_Steps ==
    (Acting /\ Returning({"set"})) =>
        LET var == Top.x.a[2].s
            home == Innermost(envs, Top.env, var)
        IN  IF home # 0
            THEN envs' = Bind(envs, home, var, ctl.x) /\ ctl'.mode = "ret"
            ELSE /\ envs' = envs
                 /\ ctl'.mode = "raise"
                 /\ ctl'.x.a[Len(ctl'.x.a)] = Text("undefined var " \o var)

C8_Results ==
    (session = SessSet /\ Len(results) >= 3 /\ results[2].ok /\ results[3].ok)
        => results[3].v = Num(6)

\* C8: (:= v e) replaces the value of v in the innermost environment of the
\* chain that binds v and adds no binding anywhere else; when no
\* environment of the chain binds v the form fails with 'undefined var v'
\* and creates no binding.  After (define x 5) and (:= x (+ x 1)), x is 6.
C8_SetInnermost == []C8_Results /\ [][C8_Steps]_vars

C9_Steps ==
    /\ (Acting /\ Returning({"if_test"})) =>
          /\ ctl'.mode = "eval"
          /\ ctl'.env = Top.env
          /\ ctl'.x = (IF Truthy(ctl.x) THEN Top.x.a[3] ELSE Top.x.a[4])
          /\ Len(stack') = Len(stack)
          /\ envs' = envs
    /\ (Acting /\ Returning({"tail"}) /\ IsForm(Top.x, {"if"})) =>
          /\ ctl'.mode = "ret" /\ ctl'.x = ctl.x
          /\ stack' = Pop /\ envs' = envs

C9_Results ==
    /\ session = SessIfTrue =>
          /\ Entries(Gt(2, 1)) <= 1 /\ Entries(DefineA) <= 1
          /\ Entries(DefineB) = 0 /\ ~Bound(1, "b")
          /\ (Len(results) >= 1 /\ results[1].ok) =>
                Entries(Gt(2, 1)) = 1 /\ Entries(DefineA) = 1 /\ Bound(1, "a")
    /\ session = SessIfFalse =>
          /\ Entries(Gt(1, 2)) <= 1 /\ Entries(DefineB) <= 1
          /\ Entries(DefineA) = 0 /\ ~Bound(1, "a")
          /\ (Len(results) >= 1 /\ results[1].ok) =>
                Entries(Gt(1, 2)) = 1 /\ Entries(DefineB) = 1 /\ Bound(1, "b")
    /\ session = SessIfCount =>
          /\ Bound(1, "x") => envs[1].vars["x"].n <= 1
          /\ ~Bound(1, "b")
          /\ (Len(results) >= 2 /\ results[2].ok) =>
                envs[1].vars["x"] = Num(1) /\ Bound(1, "a")

\* C9: (if test then else) evaluates test exactly once and then exactly one
\* of the two branches; the branch that is not selected is never evaluated,
\* so none of its side effects occur.
C9_IfOneBranch == []C9_Results /\ [][C9_Steps]_vars

C9_Witness ==
    /\ session = SessIfCount
    /\ Len(results) = 3
    /\ results[2].ok
    /\ results[3] = Ok(Num(1))
    /\ Bound(1, "a")
    /\ ~Bound(1, "b")

Min(a, b) == IF a < b THEN a ELSE b

C10_Steps ==
    (Acting /\ CallReady /\ Vals[1].k = "proc") =>
        LET proc == Vals[1]
            args == Tail(Vals)
            parms == proc.a[1].a
            n == Min(Len(parms), Len(args))
            new == Len(envs) + 1
        IN  /\ Len(envs') = new
            /\ SubSeq(envs', 1, Len(envs)) = envs
            /\ envs'[new].outer = proc.n
            /\ DOMAIN envs'[new].vars = {parms[i].s : i \in 1..n}
            /\ \A i \in 1..n :
                  (\A j \in i + 1..n : parms[j] # parms[i])
                      => envs'[new].vars[parms[i].s] = args[i]
            /\ ctl' = Ctl("eval", proc.a[2], new)

C10_Results ==
    /\ session = SessProc =>
          /\ ~Bound(1, "z")
          /\ (Len(results) >= 2 /\ results[2].ok) => results[2].v = List(<<Num(1), Num(2)>>)
          /\ (Len(results) >= 3 /\ results[3].ok) => results[3].v = List(<<Num(3), Num(4)>>)
          /\ Len(results) >= 4 => ~results[4].ok
    /\ session = SessProcArity =>
          /\ Len(results) >= 2 => ~results[2].ok
          /\ (Len(results) >= 3 /\ results[3].ok) => results[3].v = Num(1)

\* C10: every invocation of a Procedure evaluates the body in a fresh child
\* environment whose outer link is the captured defining environment and
\* whose bindings are the parameters paired positionally with the arguments
\* of the call; a binding made by define inside the body is visible neither
\* in the defining environment nor in a later invocation.
C10_FreshFrame == []C10_Results /\ [][C10_Steps]_vars

C10_Witness ==
    /\ session = SessProc
    /\ Len(results) = 4
    /\ results[2].ok
    /\ results[3].ok
    /\ ~results[4].ok
    /\ envs[2].vars["z"] = Num(1)
    /\ envs[3].vars["z"] = Num(3)
    /\ envs[3].outer = 1

----------------------------------------------------------------------------
(* Properties of the procedure call *)

\* lisp_eval has reached its procedure-call branch
CallForm == Entering /\ DispatchError(ctl.x) = None /\ ctl.x.k = "list"
            /\ ~IsForm(ctl.x, Reserved)

C22_Steps ==
    \* the head is evaluated first
    /\ (Acting /\ CallForm) =>
          /\ ctl' = Ctl("eval", ctl.x.a[1], ctl.env)
          /\ stack' = Push(Frame(ctl.x, ctl.env, "call", <<>>, 1))
          /\ envs' = envs
    \* then the next sub-expression, and nothing is invoked yet
    /\ (Acting /\ Returning({"call"}) /\ ~IsMake(Top.x) /\ Top.i < Len(Top.x.a)) =>
          /\ ctl' = Ctl("eval", Top.x.a[Top.i + 1], Top.env)
          /\ Len(stack') = Len(stack)
          /\ stack'[Len(stack)].acc = Append(Top.acc, ctl.x)
          /\ stack'[Len(stack)].i = Top.i + 1
          /\ envs' = envs
    \* the callable is invoked with one value for every sub-expression
    /\ (Acting /\ Returning({"call"}) /\ ~IsMake(Top.x) /\ Top.i = Len(Top.x.a)) =>
          /\ Len(Vals) = Len(Top.x.a)
          /\ Vals[1].k = "prim" =>
                /\ ApplyPrim(Vals[1].s, Tail(Vals)).ok =>
                      ctl' = Ctl("ret", ApplyPrim(Vals[1].s, Tail(Vals)).v, Top.env)
                /\ ~ApplyPrim(Vals[1].s, Tail(Vals)).ok => ctl'.mode = "raise"
          /\ Vals[1].k = "proc" =>
                /\ ctl' = Ctl("eval", Vals[1].a[2], Len(envs) + 1)
                /\ envs' = Append(envs, Env(Vals[1].a[1].a, Tail(Vals),
                                            envs'[Len(envs) + 1].outer, 0, now))
    \* a failure of the head or of an argument ends the form
    /\ (Acting /\ Raising /\ Top.pc = "call") =>
          /\ ctl'.mode = "raise"
          /\ stack' = Pop
          /\ envs' = envs

C22_Results ==
    /\ session = SessCallOrder =>
          /\ Entries(DefineA) <= 1
          /\ (Len(results) >= 1 /\ results[1].ok) =>
                /\ results[1].v = List(<<None, Num(1), None, Num(2)>>)
                /\ Entries(DefineA) = 1
          /\ (Len(results) >= 2 /\ results[2].ok) =>
                results[2].v = List(<<Num(3), None>>)
    /\ session = SessCallFail =>
          /\ Entries(DefineB) = 0 /\ ~Bound(1, "b")
          /\ Len(results) >= 1 => ~results[1].ok
          /\ (Len(results) >= 2 /\ results[2].ok) => results[2].v = Num(1)
          /\ Len(results) >= 3 => ~results[3].ok
          /\ Len(results) >= 4 => ~results[4].ok

\* C22: a procedure call evaluates its head first, then every remaining
\* sub-expression once, left to right, and invokes the callable after the
\* last of them; when the head or an argument fails, the arguments after it
\* are not evaluated and the callable is not invoked.
C22_CallOrder == []C22_Results /\ [][C22_Steps]_vars

C22_Witness ==
    /\ session = SessCallOrder
    /\ Len(results) = 2
    /\ results[1] = Ok(List(<<None, Num(1), None, Num(2)>>))
    /\ results[2] = Ok(List(<<Num(3), None>>))

----------------------------------------------------------------------------
(* Properties of the make- constructor *)

\* every value of a make- form is there: the form is about to finish
MakeReady ==
    \/ Returning({"make"}) /\ Top.i = Len(Top.x.a)
    \/ Returning({"call"}) /\ IsMake(Top.x) /\ Len(Top.x.a) < 3

C23_Steps ==
    (Acting /\ MakeReady /\ Vals[1].k = "int"
       /\ Len(Top.x.a) >= 2 /\ Top.x.a[2].k = "str") =>
        LET n == Vals[1].n
            values == Tail(Vals)
            target == Top.x.a[2].s
            e == Top.env
        IN  /\ ctl' = Ctl("ret", None, e)
            /\ stack' = Pop
            /\ Len(values) = n =>
                  /\ Len(envs') = Len(envs)
                  /\ \A i \in 1..Len(envs) : i # e => envs'[i] = envs[i]
                  /\ DOMAIN envs'[e].vars = DOMAIN envs[e].vars \cup {target}
                  /\ envs'[e].vars[target] = List(values)
                  /\ \A nm \in DOMAIN envs[e].vars \ {target} :
                        envs'[e].vars[nm] = envs[e].vars[nm]
                  /\ envs'[e].outer = envs[e].outer
            /\ Len(values) # n => envs' = envs

C23_Results ==
    /\ session = SessMake =>
          /\ ~Bound(1, "u") /\ ~Bound(1, "v")
          /\ \A i \in {2, 4, 6} : (Len(results) >= i /\ results[i].ok) => results[i].v = None
          /\ (Len(results) >= 3 /\ results[3].ok) => results[3].v = List(<<Num(1), Num(2)>>)
          /\ Len(results) >= 5 => ~results[5].ok
          /\ Len(results) >= 7 => ~results[7].ok
    /\ session = SessMakeFrame =>
          /\ ~Bound(1, "t")
          /\ (Len(results) >= 2 /\ results[2].ok) =>
                results[2].v = List(<<Num(7), Num(7)>>)
          /\ Len(results) >= 3 => ~results[3].ok
          /\ (Len(results) >= 4 /\ results[4].ok) => results[4].v = None
          /\ tl <= 6 => ~Bound(1, "u")
          /\ (Len(results) >= 8 /\ results[8].ok) => results[8].v = List(<<>>)

\* C23: for a head that starts with make- and is bound to an arity n,
\* (make-name target v1 ... vk) with k = n binds target in the current
\* environment to the list of the values and calls nothing; with k # n it
\* binds nothing, changes no environment and returns None without a failure.
C23_MakeBinds == []C23_Results /\ [][C23_Steps]_vars

C23_Witness ==
    /\ session = SessMake
    /\ Len(results) = 7
    /\ results[3] = Ok(List(<<Num(1), Num(2)>>))
    /\ results[4] = Ok(None) /\ ~results[5].ok
    /\ results[6] = Ok(None) /\ ~results[7].ok

----------------------------------------------------------------------------
(* Properties of the special forms *)

\* the number of sub-expressions a special form takes
SubExpressions(head) ==
    CASE head \in {"if", "check-within"} -> 3
      [] head \in {"define", "def", ":=", "lambda", "check-expect", "member?", "struct"} -> 2
      [] head = "quote" -> 1

FixedForms == {"if", "check-within", "define", "def", ":=", "lambda", "check-expect",
               "member?", "struct", "quote"}

\* a special form with the wrong number of sub-expressions
WrongArity(x) ==
    IsForm(x, FixedForms) /\ Len(x.a) - 1 # SubExpressions(x.a[1].s)

IsCCSE(e) == e.k = "err" /\ e.s = "CustomCommandSyntaxError"

C24_Steps ==
    (Acting /\ ctl.mode = "eval" /\ WrongArity(ctl.x)) =>
        /\ ctl'.mode = "raise" /\ IsCCSE(ctl'.x)
        /\ stack' = stack
        /\ envs' = envs

C24_Results ==
    session \in {SessTooFew, SessTooMany} =>
        /\ ~Bound(1, "a")
        /\ envs = <<envs[1]>> /\ envs[1].vars = StdVars
        /\ \A i \in 1..Len(results) :
              session[i].k = "list" => ~results[i].ok /\ IsCCSE(results[i].v)
        /\ \A i \in 1..Len(evlog) : evlog[i].x \in {session[j] : j \in 1..Len(session)}

\* C24: a special form with the wrong number of sub-expressions fails with
\* a CustomCommandSyntaxError before any of its sub-expressions is
\* evaluated, and changes no environment.
C24_WrongArityFails == []C24_Results /\ [][C24_Steps]_vars

C24_Witness ==
    /\ session = SessTooMany
    /\ Len(results) = Len(session)
    /\ \A i \in 1..9 : ~results[i].ok /\ IsCCSE(results[i].v)
                          /\ results[i].v # TimeoutError
    /\ results[11] = Ok(Str(""))

----------------------------------------------------------------------------
(* Properties of the budget under try *)

C25_Steps ==
    (Acting /\ ctl.mode = "raise" /\ IsTimeout(ctl.x)) => ctl'.mode # "ret"

C25_Results ==
    /\ \A i \in 1..Len(results) : results[i].ok => ~IsTimeout(results[i].v)
    /\ session \in {SessTryLoop, SessTryLoopFallback} =>
          \A i \in 1..Len(results) : ~results[i].ok /\ IsTimeout(results[i].v)

\* C25: once the budget of the root has been found exceeded during a
\* top-level call, the call ends in the 'command ran too long' failure: the
\* failure never becomes a returned value, and a try form around the
\* over-running code, with or without a fallback, does not make the call
\* return normally.
C25_TimeoutIsTerminal == []C25_Results /\ [][C25_Steps]_vars

----------------------------------------------------------------------------
(* Properties of struct *)

\* the i-th top-level call has ended, and not in the timeout failure
Ended(i) == Len(results) >= i /\ ~(~results[i].ok /\ IsTimeout(results[i].v))

\* C26: after (struct p (f g)) is evaluated in a root environment E built
\* by standard_env, with or without a budget, E binds p-f-pos to 0,
\* p-g-pos to 1, make-p to 2 and p? to the predicate, and (p? v) evaluated
\* in E returns whether the list v has exactly 2 elements.
C26_StructBinds ==
    session = SessStruct =>
        /\ Ended(1) =>
              /\ results[1] = Ok(None)
              /\ {"p-f-pos", "p-g-pos", "make-p", "p?"} \subseteq DOMAIN envs[1].vars
              /\ envs[1].vars["p-f-pos"] = Num(0)
              /\ envs[1].vars["p-g-pos"] = Num(1)
              /\ envs[1].vars["make-p"] = Num(2)
              /\ envs[1].vars["p?"].k = "pred"
        /\ Ended(5) /\ Ended(6) => results[6] = Ok(Bool(TRUE))
        /\ Ended(7) => results[7] = Ok(Bool(FALSE))

----------------------------------------------------------------------------
(* The reader.  A text is a sequence of characters, each a one-character   *)
(* string; a token is a text.                                              *)

MaxText == 3       \* longest text drawn from the whole alphabet

BS == "\\"
DQ == "\""
SP == " "
NL == "\n"
\* the placeholder characters ＀, ！ and ＂ of `escapes`
U00 == "<uff00>"
U01 == "<uff01>"
U02 == "<uff02>"

\* the characters \s matches
Whitespace == {SP, NL, "\t", "\r"}

\* the str of a text
Cat(chars) == JoinStr(chars, "")

RECURSIVE Replace(_, _, _)
\* str.replace(p, r): every non-overlapping occurrence, leftmost first
Replace(string, p, r) ==
    IF Len(string) < Len(p) THEN string
    ELSE IF SubSeq(string, 1, Len(p)) = p
         THEN r \o Replace(SubSeq(string, Len(p) + 1, Len(string)), p, r)
         ELSE <<string[1]>> \o Replace(Tail(string), p, r)

\* the table `escapes`: source sequence, placeholder, character denoted
escapes ==
    << <<<<BS, BS>>, <<U00>>, <<BS>>>>,
       <<<<BS, DQ>>, <<U01>>, <<DQ>>>>,
       <<<<BS, "n">>, <<U02>>, <<NL>>>> >>

RECURSIVE ReplaceAll(_, _, _, _)
\* the loop `for ... in escapes: string = string.replace(...)` from entry i,
\* replacing column `from` by column `to`
ReplaceAll(string, i, from, to) ==
    IF i > Len(escapes) THEN string
    ELSE ReplaceAll(Replace(string, escapes[i][from], escapes[i][to]), i + 1, from, to)

\* an escaper that leaves the escape sequences in place
l_escapeNothing(string) == string

l_escape(string) == ReplaceAll(string, 1, 1, 2)

l_restore(string) == ReplaceAll(string, 1, 2, 3)

\* the characters the atom alternative [^()" ]+ rejects
AtomStop == {"(", ")", DQ, SP}

RECURSIVE tokenizeFrom(_, _)
\* re.findall of  ".*?" | \( | \) | [^()" ]+  with DOTALL, scanning from i:
\* the alternatives are tried in this order at every position, and a
\* character where none matches is passed over
tokenizeFrom(string, i) ==
    IF i > Len(string) THEN <<>>
    ELSE LET closers == {j \in (i + 1)..Len(string) : string[j] = DQ}
             close == CHOOSE j \in closers : \A k \in closers : j <= k
             run == {j \in i..Len(string) :
                        \A k \in i..j : string[k] \notin AtomStop}
             stop == CHOOSE j \in run : \A k \in run : k <= j
         IN  IF string[i] = DQ /\ closers # {}
             THEN <<SubSeq(string, i, close)>> \o tokenizeFrom(string, close + 1)
             ELSE IF string[i] \in {"(", ")"}
             THEN <<<<string[i]>>>> \o tokenizeFrom(string, i + 1)
             ELSE IF run # {}
             THEN <<SubSeq(string, i, stop)>> \o tokenizeFrom(string, stop + 1)
             ELSE tokenizeFrom(string, i + 1)

tokenize(string) == tokenizeFrom(l_escape(string), 1)

UpperCase ==
    <<"A", "B", "C", "D", "E", "F", "G", "H", "I", "J", "K", "L", "M",
      "N", "O", "P", "Q", "R", "S", "T", "U", "V", "W", "X", "Y", "Z">>
LowerCase ==
    <<"a", "b", "c", "d", "e", "f", "g", "h", "i", "j", "k", "l", "m",
      "n", "o", "p", "q", "r", "s", "t", "u", "v", "w", "x", "y", "z">>

\* str.lower() of one character
Lower(c) ==
    IF \E i \in 1..26 : UpperCase[i] = c
    THEN LowerCase[CHOOSE i \in 1..26 : UpperCase[i] = c]
    ELSE c

LowerText(token) == [i \in 1..Len(token) |-> Lower(token[i])]

Digits == {"0", "1", "2", "3", "4", "5", "6", "7", "8", "9"}

DigitVal(c) ==
    CASE c = "0" -> 0 [] c = "1" -> 1 [] c = "2" -> 2 [] c = "3" -> 3
      [] c = "4" -> 4 [] c = "5" -> 5 [] c = "6" -> 6 [] c = "7" -> 7
      [] c = "8" -> 8 [] c = "9" -> 9

RECURSIVE IntVal(_)
\* int(token) of a token made of decimal digits
IntVal(token) ==
    IF token = <<>> THEN 0
    ELSE 10 * IntVal(SubSeq(token, 1, Len(token) - 1)) + DigitVal(token[Len(token)])

\* int(token) succeeds: the texts here carry no sign and no underscore
IsInt(token) == token # <<>> /\ \A i \in 1..Len(token) : token[i] \in Digits

\* float(token) succeeds on a token int() refused: without '.', 'e' or a
\* sign in the texts, only the spellings of nan and inf are left
FloatWords == {"nan", "inf", "infinity"}
IsFloat(token) == Cat(LowerText(token)) \in FloatWords

Float(name) == V("float", 0, name, <<>>)

\* rs_utils.is_positive: the truth value a word spells, or CommandSyntaxError
is_positive(token) ==
    LET word == Cat(LowerText(token))
    IN  CASE word = "true" -> Ok(Bool(TRUE))
          [] word = "false" -> Ok(Bool(FALSE))
          [] OTHER -> Fail(Raise("CommandSyntaxError", "not a truth value"))

atom(token) ==
    IF IsInt(token) THEN Num(IntVal(token))
    ELSE IF IsFloat(token) THEN Float(Cat(LowerText(token)))
    ELSE IF is_positive(token).ok THEN is_positive(token).v
    ELSE Str(Cat(LowerText(token)))

RECURSIVE Strip(_)
\* re.sub(r"^\s+|\s+$", "", token)
Strip(token) ==
    IF token = <<>> THEN token
    ELSE IF token[1] \in Whitespace THEN Strip(Tail(token))
    ELSE IF token[Len(token)] \in Whitespace
         THEN Strip(SubSeq(token, 1, Len(token) - 1))
    ELSE token

\* what read_from_tokens leaves: the expression it returns (with the
\* characters of a str, for a later join) or the exception it raises, and
\* the tokens it has not consumed
Read(v, rest, chars) == [ok |-> TRUE, v |-> v, rest |-> rest, chars |-> chars]
ReadFail(e) == [ok |-> FALSE, v |-> e, rest |-> <<>>, chars |-> <<>>]

\* tokens[0] on an empty list
IndexError == Raise("IndexError", "list index out of range")

\* re.match(r'\".*\"', token, re.DOTALL)
IsQuoted(token) ==
    /\ token # <<>>
    /\ token[1] = DQ
    /\ \E j \in 2..Len(token) : token[j] = DQ

RECURSIVE JoinChars(_, _)
\* sep.join(items) on texts
JoinChars(items, sep) ==
    IF items = <<>> THEN <<>>
    ELSE IF Len(items) = 1 THEN items[1]
    ELSE items[1] \o sep \o JoinChars(Tail(items), sep)

\* " ".join(l): every item has to be a str
JoinError(l) ==
    LET bad == {i \in 1..Len(l) : l[i].v.k # "str"}
        i == CHOOSE j \in bad : \A k \in bad : j <= k
    IN  IF bad = {} THEN None
        ELSE Raise("TypeError", "sequence item " \o ToString(i - 1)
                     \o ": expected str instance, " \o PyType(l[i].v) \o " found")

RECURSIVE read_from_tokens(_), ReadList(_, _), ReadComment(_, _)

\* the loop of the '(' branch: l is the list built so far
ReadList(tokens, l) ==
    IF tokens = <<>> THEN ReadFail(IndexError)
    ELSE IF Head(tokens) = <<")">> THEN Read(List(l), Tail(tokens), <<>>)
    ELSE LET t == read_from_tokens(tokens)
         IN  IF ~t.ok THEN t
             ELSE ReadList(t.rest, IF t.v = Str("") THEN l ELSE Append(l, t.v))

\* the loop of the ';' branch, up to a token that is one newline
ReadComment(tokens, l) ==
    IF tokens = <<>> THEN ReadFail(IndexError)
    ELSE IF Head(tokens) = <<NL>>
    THEN LET all == Append(l, [v |-> Str(NL), chars |-> <<NL>>])
         IN  IF JoinError(all) # None THEN ReadFail(JoinError(all))
             ELSE Read(List(<<Str("quote"),
                               Str(Cat(l_restore(JoinChars(
                                   [i \in 1..Len(all) |-> all[i].chars], <<SP>>))))>>),
                       Tail(tokens), <<>>)
    ELSE LET t == read_from_tokens(tokens)
         IN  IF ~t.ok THEN t
             ELSE ReadComment(t.rest, Append(l, [v |-> t.v, chars |-> t.chars]))

read_from_tokens(tokens) ==
    IF tokens = <<>>
    THEN ReadFail(CCSE(<<Text("unexpected EOF while reading")>>))
    ELSE LET token == Head(tokens)
             stripped == Strip(token)
         IN  IF IsQuoted(token)
             THEN Read(List(<<Str("quote"),
                               Str(Cat(l_restore(SubSeq(token, 2, Len(token) - 1))))>>),
                       Tail(tokens), <<>>)
             ELSE IF token = <<"(">> THEN ReadList(Tail(tokens), <<>>)
             ELSE IF token = <<";">>
             THEN ReadComment(Tail(tokens), <<[v |-> Str(";"), chars |-> <<";">>]>>)
             ELSE IF token = <<")">> THEN ReadFail(CCSE(<<Text("unexpected )")>>))
             ELSE Read(atom(stripped), Tail(tokens),
                       IF atom(stripped).k = "str" THEN LowerText(stripped) ELSE <<>>)

parse(program) == read_from_tokens(tokenize(program))

----------------------------------------------------------------------------
(* Calls of the text-level functions on bounded inputs *)

Alphabet == {"(", ")", DQ, SP, NL, BS, "n", "a", "A", "1", ";", U01}

\* texts longer than MaxText
Unclosed == <<"(", "+", SP, "1", SP, "2">>
Overclosed == <<"(", "+", SP, "1", SP, "2", ")", ")">>
NestedUnclosed == <<"(", "a", SP, "(", "a", SP, "(", "a", ")">>
QuotedEscapes == <<"(", "a", SP, DQ, "a", BS, DQ, SP, BS, "n", DQ, ")">>
Comment == <<"(", ";", SP, "a", SP, NL, SP, "1", ")">>
Truth == <<"(", "t", "r", "u", "e", NL, "F", "a", "l", "s", "e", ")">>
\* (define x 5) (:= x (+ x 1)) x
Sequential == <<"(", "d", "e", "f", "i", "n", "e", SP, "x", SP, "5", ")", SP,
                "(", ":", "=", SP, "x", SP, "(", "+", SP, "x", SP, "1", ")", ")",
                SP, "x">>
Examples == {Unclosed, Overclosed, NestedUnclosed, QuotedEscapes, Comment, Truth,
             Sequential}

Programs == UNION {[1..n -> Alphabet] : n \in 0..MaxText} \cup Examples

\* a pending call: the function's name is not yet chosen
Input(kind, string, args) ==
    [call |-> kind, s |-> string, args |-> args, pos |-> <<>>, kw |-> <<>>,
     out |-> <<>>]
Called(fn, out) == [text EXCEPT !.call = fn, !.out = out]

ReaderInputs == {Input("program", p, <<>>) : p \in Programs}

Untouched == UNCHANGED <<lispvars, cc, music>>

CallEscape ==
    /\ text.call = "program"
    /\ text' = Called("l_escape", l_escape(text.s))
    /\ Untouched

\* the escaped text is restored
CallRestore ==
    /\ text.call = "l_escape"
    /\ text' = Called("l_restore", l_restore(text.out))
    /\ Untouched

CallTokenize ==
    /\ text.call = "program"
    /\ text' = Called("tokenize", tokenize(text.s))
    /\ Untouched

CallParse ==
    /\ text.call = "program"
    /\ text' = Called("parse", parse(text.s))
    /\ Untouched

----------------------------------------------------------------------------
(* transcode *)

MaxCode == 2       \* longest string and longest mapping string given to transcode

\* str.maketrans(def_code, alt_code) of unequal lengths
MaketransError ==
    Raise("ValueError", "the first two maketrans arguments must have equal length")

\* a translation that maps as the first occurrence in def_code says
TranslateFirst(string, def_code, alt_code) ==
    LET at(c) == {j \in 1..Len(def_code) : def_code[j] = c}
        first(c) == CHOOSE j \in at(c) : \A k \in at(c) : j <= k
    IN  [i \in 1..Len(string) |->
            IF at(string[i]) = {} THEN string[i] ELSE alt_code[first(string[i])]]

\* string.translate(str.maketrans(def_code, alt_code)): a character that
\* occurs twice in def_code maps as its last occurrence says
Translate(string, def_code, alt_code) ==
    LET at(c) == {j \in 1..Len(def_code) : def_code[j] = c}
        last(c) == CHOOSE j \in at(c) : \A k \in at(c) : k <= j
    IN  [i \in 1..Len(string) |->
            IF at(string[i]) = {} THEN string[i] ELSE alt_code[last(string[i])]]

\* the built-in alphabet, and the named tables carried here
DefCode ==
    SubSeq(UpperCase, 1, 13) \o SubSeq(LowerCase, 1, 13)
        \o SubSeq(UpperCase, 14, 26) \o SubSeq(LowerCase, 14, 26)
AltCode ==
    [name \in {"rot13", "sbancient"} |->
        IF name = "rot13"
        THEN SubSeq(UpperCase, 14, 26) \o SubSeq(LowerCase, 14, 26)
                 \o SubSeq(UpperCase, 1, 13) \o SubSeq(LowerCase, 1, 13)
        ELSE <<>>]

\* the three grave accents that open and close the help text
Fence == "<code fence>"

Unsupported(name) ==
    CCSE(<<Text(name \o " is not a supported transcoding. Use (transcode "
                 \o "\"help\") to get a list of available transcodings.")>>)
UnequalLength ==
    CCSE(<<Text("transcode: To and From transcoding patterns must be the same length.")>>)

\* transcode(string, *args): the translated text, or the exception raised
transcode(string, args) ==
    IF Len(args) = 0 THEN Ok(string)
    ELSE IF Len(args) = 1
    THEN LET name == Cat(LowerText(args[1]))
         IN  IF name = "help"
             THEN Ok(<<Fence, NL, "AVAILABLE TRANSCODINGS:", NL,
                       "rot13", NL, "sbancient", Fence>>)
             ELSE IF name \notin DOMAIN AltCode THEN Fail(Unsupported(name))
             ELSE IF Len(DefCode) # Len(AltCode[name]) THEN Fail(MaketransError)
             ELSE Ok(Translate(string, DefCode, AltCode[name]))
    ELSE IF Len(args[1]) # Len(args[2]) THEN Fail(UnequalLength)
    ELSE Ok(Translate(string, args[1], args[2]))

CodeAlphabet == {"a", "b", "c"}
Codes == UNION {[1..n -> CodeAlphabet] : n \in 0..MaxCode}

Rot13 == <<"r", "o", "t", "1", "3">>
NamedCodes == {Rot13, <<"R", "O", "T", "1", "3">>, <<"h", "e", "l", "p">>,
               <<"s", "b", "a", "n", "c", "i", "e", "n", "t">>, <<"a">>}

TranscodeInputs ==
    {Input("string", str, <<A, B>>) : str \in Codes, A \in Codes, B \in Codes}
        \cup {Input("string", <<"a", "N", "1">>, <<name>>) : name \in NamedCodes}
        \cup {Input("string", <<"a">>, <<>>),
              Input("string", <<"a">>, <<<<"a">>, <<"b">>, <<"c", "c">>>>)}

CallTranscode ==
    /\ text.call = "string"
    /\ text' = Called("transcode", transcode(text.s, text.args))
    /\ Untouched

\* the translated string is translated with the two mapping strings exchanged
CallTranscodeBack ==
    /\ text.call = "transcode"
    /\ Len(text.args) = 2
    /\ text.out.ok
    /\ text' = Called("transcode back",
                      transcode(text.out.v, <<text.args[2], text.args[1]>>))
    /\ Untouched

----------------------------------------------------------------------------
(* standard_env with keyword arguments *)

\* the identifiers standard_env declares for the embedding layer
Placeholders == {"username", "usernick", "usermention", "authorname",
                 "authornick", "argstring", "args", "output"}

\* the keyword parameters of Env.__init__
EnvParams == {"parms", "args", "outer", "max_runtime"}

KwArg(name, v) == [name |-> name, v |-> v]

\* Env(**kwargs) given a keyword Env.__init__ does not have
UnexpectedKeyword(name) ==
    Raise("TypeError", "Env.__init__() got an unexpected keyword argument '"
                           \o name \o "'")

\* the keyword argument called name, or the parameter's default
Keyword(kwargs, name, default) ==
    IF \E i \in 1..Len(kwargs) : kwargs[i].name = name
    THEN kwargs[CHOOSE i \in 1..Len(kwargs) : kwargs[i].name = name].v
    ELSE default

\* standard_env(*_, **kwargs): positional arguments are dropped, the keyword
\* arguments go to Env.__init__, and the table is written over the result
standard_env_kwargs(kwargs, t) ==
    LET bad == {i \in 1..Len(kwargs) : kwargs[i].name \notin EnvParams}
        first == CHOOSE i \in bad : \A j \in bad : i <= j
        env == Env(Keyword(kwargs, "parms", List(<<>>)).a,
                   Keyword(kwargs, "args", List(<<>>)).a,
                   0, Keyword(kwargs, "max_runtime", Num(0)).n, t)
    IN  IF bad # {} THEN Fail(UnexpectedKeyword(kwargs[first].name))
        ELSE Ok([env EXCEPT !.vars = Update(env.vars, StdVars)])

Bob == Str("bob")

EnvInputs ==
    {[Input("kwargs", <<>>, <<>>) EXCEPT !.pos = pos, !.kw = kw] :
        pos \in {<<>>, <<Bob>>},
        kw \in {<<>>, <<KwArg("max_runtime", Num(Budget))>>}
            \cup {<<KwArg(p, Bob)>> : p \in Placeholders}
            \cup {<<KwArg(p, Bob), KwArg(q, Str("hi"))>> :
                     p \in Placeholders, q \in {"output"}}
            \cup {<<KwArg("parms", List(<<Str(p), Str(q)>>)),
                    KwArg("args", List(<<Bob, Str("hi")>>))>> :
                     p \in Placeholders \cup {"x"}, q \in {"output", "y"}}}

CallStandardEnv ==
    /\ text.call = "kwargs"
    /\ text' = Called("standard_env", standard_env_kwargs(text.kw, now))
    /\ Untouched

----------------------------------------------------------------------------
(* Specification of the text-level calls *)

TextInit ==
    /\ text \in ReaderInputs \cup TranscodeInputs \cup EnvInputs
    /\ session = <<>>
    /\ envs = <<standard_env(0, 0)>>
    /\ ctl = Ctl("idle", None, 0)
    /\ stack = <<>>
    /\ now = 0
    /\ tl = 0
    /\ results = <<>>
    /\ evlog = <<>>
    /\ cc = NoCc
    /\ music = NoMusic

TextNext ==
    \/ CallEscape \/ CallRestore \/ CallTokenize \/ CallParse
    \/ CallTranscode \/ CallTranscodeBack \/ CallStandardEnv

TextSpec == TextInit /\ [][TextNext]_vars

----------------------------------------------------------------------------
(* The custom-commands plugin (plugins/custom_commands.py): run_cc,        *)
(* _find_tags and the variable tags.  Command texts are texts as above;    *)
(* positions in them count from 1.                                         *)

MaxRuns == 3       \* invocations of run_cc in one behaviour

Reverse(string) == [i \in 1..Len(string) |-> string[Len(string) + 1 - i]]

\* the dict {}
EmptyVars == [nm \in {} |-> <<>>]

CommandSyntaxError(msg) == Raise("CommandSyntaxError", msg)

\* what a tag function, _parse_tag or _find_tags leaves: the text it returns
\* or the exception it raises, and ccvars as it is afterwards
TagResult(out, ccvars) == [ok |-> TRUE, v |-> out, ccvars |-> ccvars]
TagError(e, ccvars) == [ok |-> FALSE, v |-> e, ccvars |-> ccvars]

RECURSIVE ScanBrackets(_, _, _, _, _)
\* the first loop of _find_tags over the reversed text: the positions of the
\* closing brackets, each appended when its opening bracket is met
ScanBrackets(t_str, t_pos, t_lvl, t_lst, t_res) ==
    IF t_pos > Len(t_str)
    THEN IF t_lvl > 0 THEN Fail(CommandSyntaxError("Missing opening bracket!"))
         ELSE Ok(t_res)
    ELSE IF t_str[t_pos] = ">"
    THEN ScanBrackets(t_str, t_pos + 1, t_lvl + 1, Append(t_lst, t_pos), t_res)
    ELSE IF t_str[t_pos] = "<"
    THEN IF t_lvl - 1 < 0 THEN Fail(CommandSyntaxError("Missing closing bracket!"))
         ELSE ScanBrackets(t_str, t_pos + 1, t_lvl - 1,
                           SubSeq(t_lst, 1, Len(t_lst) - 1),
                           Append(t_res, t_lst[Len(t_lst)]))
    ELSE ScanBrackets(t_str, t_pos + 1, t_lvl, t_lst, t_res)

RECURSIVE SortReverse(_)
\* t_res.sort(reverse=True) on distinct positions
SortReverse(t_res) ==
    IF t_res = <<>> THEN <<>>
    ELSE LET m == CHOOSE i \in 1..Len(t_res) : \A j \in 1..Len(t_res) : t_res[j] <= t_res[i]
         IN  <<t_res[m]>> \o SortReverse(SubSeq(t_res, 1, m - 1)
                                             \o SubSeq(t_res, m + 1, Len(t_res)))

\* t_str[t_pos:].find(c) + t_pos: the first c at or after t_pos, and the
\* position before t_pos when there is none
FindFrom(t_str, c, t_pos) ==
    LET at == {i \in t_pos..Len(t_str) : t_str[i] = c}
    IN  IF at = {} THEN t_pos - 1 ELSE CHOOSE i \in at : \A j \in at : i <= j

RECURSIVE SplitArgsFrom(_, _)
\* re.split(r"(?<!\\);", argstr) with cur the piece being read; then the
\* replace of "\;" by ";" in every piece
SplitArgsFrom(argstr, cur) ==
    IF argstr = <<>> THEN <<Replace(cur, <<BS, ";">>, <<";">>)>>
    ELSE IF argstr[1] = ";" /\ (cur = <<>> \/ cur[Len(cur)] # BS)
    THEN <<Replace(cur, <<BS, ";">>, <<";">>)>> \o SplitArgsFrom(Tail(argstr), <<>>)
    ELSE SplitArgsFrom(Tail(argstr), Append(cur, argstr[1]))

_split_args(argstr) == SplitArgsFrom(argstr, <<>>)

_getvar(args, ccvars) ==
    LET name == Cat(LowerText(args))
    IN  IF name \in DOMAIN ccvars THEN TagResult(ccvars[name], ccvars)
        ELSE TagError(CCSE(<<Text("No such variable " \o name \o ".")>>), ccvars)

_setvar(args, ccvars) ==
    LET parts == _split_args(args)
    IN  IF Len(parts) < 2
        THEN TagError(Raise("ValueError",
                            "not enough values to unpack (expected 2, got 1)"), ccvars)
        ELSE TagResult(<<>>, Update(ccvars, [nm \in {Cat(LowerText(parts[1]))} |-> parts[2]]))

\* seq[lo:hi] with Python's clamping of the bounds (negative ones count
\* from the end)
Slice(seq, lo, hi) ==
    LET n == Len(seq)
        clamp(i) == IF i < 0 THEN (IF n + i < 0 THEN 0 ELSE n + i)
                    ELSE IF i > n THEN n ELSE i
    IN  SubSeq(seq, clamp(lo) + 1, clamp(hi))

\* int(token) of a decimal numeral with an optional sign
IsSignedInt(token) ==
    IsInt(token) \/ (token # <<>> /\ token[1] \in {"-", "+"} /\ IsInt(Tail(token)))

SignedVal(token) ==
    IF token[1] = "-" THEN 0 - IntVal(Tail(token))
    ELSE IF token[1] = "+" THEN IntVal(Tail(token))
    ELSE IntVal(token)

\* _args(args, msg): msg is msg.clean_content.split(" ")[1:], the words
\* of the message after the command's name
_args(args, msg, ccvars) ==
    LET n == Len(msg)
        joined(words) == TagResult(JoinChars(words, <<SP>>), ccvars)
        notint == TagError(CCSE(<<Text("<args> slice argument is not a valid integer!")>>),
                           ccvars)
    IN  IF IsInt(args)      \* str.isdecimal
        THEN LET i == IntVal(args) - 1
             IN  IF i \in 0..(n - 1) THEN TagResult(msg[i + 1], ccvars)
                 ELSE IF i = -1 /\ n > 0 THEN TagResult(msg[n], ccvars)
                 ELSE TagResult(<<>>, ccvars)
        ELSE IF args = <<"*">> THEN joined(msg)
        ELSE IF args # <<>> /\ args[1] = "*"
        THEN IF IsSignedInt(Tail(args))
             THEN joined(Slice(msg, 0, SignedVal(Tail(args))))
             ELSE notint
        ELSE IF args # <<>> /\ args[Len(args)] = "*"
        THEN LET front == SubSeq(args, 1, Len(args) - 1)
             IN  IF IsSignedInt(front) THEN joined(Slice(msg, SignedVal(front) - 1, n))
                 ELSE notint
        ELSE TagError(CCSE(<<Text("<args> argument is not a number or *!")>>), ccvars)

\* the keys of self.tags whose functions are carried here
tags == {"getvar", "setvar", "args"}

\* the name of a tag: what stands before its first colon
TagName(tag) ==
    LET colon == FindFrom(tag, ":", 1)
    IN  IF colon = 0 THEN tag ELSE SubSeq(tag, 1, colon - 1)

\* _parse_tag: the tag is looked up lowercased and then fetched as written
_parse_tag(tag, msg, ccvars) ==
    LET colon == FindFrom(tag, ":", 1)
        name == IF colon = 0 THEN tag ELSE SubSeq(tag, 1, colon - 1)
        args == IF colon = 0 THEN <<>> ELSE SubSeq(tag, colon + 1, Len(tag))
    IN  IF Cat(LowerText(name)) \notin tags
        THEN TagError(CCSE(<<Text("No such tag " \o Cat(name) \o "!")>>), ccvars)
        ELSE IF Cat(name) \notin tags
        THEN TagError(Raise("KeyError", "'" \o Cat(name) \o "'"), ccvars)
        ELSE IF Cat(name) = "getvar" THEN _getvar(args, ccvars)
        ELSE IF Cat(name) = "setvar" THEN _setvar(args, ccvars)
        ELSE _args(args, msg, ccvars)

\* a result together with the history of the calls of _parse_tag: for each
\* call the tag it was given and the position t_pos of its closing bracket
WithCalls(r, calls) == [ok |-> r.ok, v |-> r.v, ccvars |-> r.ccvars, calls |-> calls]

\* a loop that takes the closing brackets in the order of the scan
TagOrderAsScanned(t_res) == t_res

\* t_res.sort(reverse=True): the order the second loop takes the tags in
TagOrder(t_res) == SortReverse(t_res)

RECURSIVE ProcessTags(_, _, _, _, _)
\* the second loop of _find_tags: every chunk between a closing bracket and
\* the closest opening bracket is replaced by the result of its tag
ProcessTags(t_str, t_res, msg, ccvars, calls) ==
    IF t_res = <<>> THEN WithCalls(TagResult(t_str, ccvars), calls)
    ELSE LET t_pos == Head(t_res)
             e_pos == FindFrom(t_str, "<", t_pos)
             tag == Reverse(SubSeq(t_str, t_pos + 1, e_pos - 1))
             r == _parse_tag(tag, msg, ccvars)
             called == Append(calls, [tag |-> tag, t_pos |-> t_pos])
         IN  IF ~r.ok THEN WithCalls(r, called)
             ELSE ProcessTags(SubSeq(t_str, 1, t_pos - 1) \o Reverse(r.v)
                                  \o SubSeq(t_str, e_pos + 1, Len(t_str)),
                              Tail(t_res), msg, r.ccvars, called)

_find_tags(string, msg, ccvars) ==
    LET t_str == Reverse(string)
        scan == ScanBrackets(t_str, 1, 0, <<>>, <<>>)
        r == ProcessTags(t_str, TagOrder(scan.v), msg, ccvars, <<>>)
    IN  IF ~scan.ok THEN WithCalls(TagError(scan.v, ccvars), <<>>)
        ELSE IF ~r.ok THEN r
        ELSE WithCalls(TagResult(Reverse(r.v), r.ccvars), r.calls)

\* the stored commands self.ccs[gid] of one guild
\* sets a variable and returns nothing:  <setvar:a;1>
CcSet == [content |-> <<"<", "s", "e", "t", "v", "a", "r", ":", "a", ";", "1", ">">>,
    locked |-> FALSE]
\* sets a variable and returns it:  <setvar:a;1>v=<getvar:a>
CcSetget == [content |-> <<"<", "s", "e", "t", "v", "a", "r", ":", "a", ";", "1", ">", "v", "=", "<", "g", "e", "t", "v", "a", "r", ":", "a", ">">>,
    locked |-> FALSE]
\* returns a variable it does not set:  <getvar:a>
CcGet == [content |-> <<"<", "g", "e", "t", "v", "a", "r", ":", "a", ">">>,
    locked |-> FALSE]
\* sets a variable, then fails on an unknown tag:  <setvar:a;1><nosuch>
CcSetfail == [content |-> <<"<", "s", "e", "t", "v", "a", "r", ":", "a", ";", "1", ">", "<", "n", "o", "s", "u", "c", "h", ">">>,
    locked |-> FALSE]
\* a closing bracket too many:  <setvar:a;1>>
CcBracket == [content |-> <<"<", "s", "e", "t", "v", "a", "r", ":", "a", ";", "1", ">", ">">>,
    locked |-> FALSE]
\* a tag inside a tag:  <setvar:b;<getvar:a>>b
CcNested == [content |-> <<"<", "s", "e", "t", "v", "a", "r", ":", "b", ";", "<", "g", "e", "t", "v", "a", "r", ":", "a", ">", ">", "b">>,
    locked |-> FALSE]
\* setvar without a value:  <setvar:a>
CcUnpack == [content |-> <<"<", "s", "e", "t", "v", "a", "r", ":", "a", ">">>,
    locked |-> FALSE]
\* no tag at all:  hi
CcPlain == [content |-> <<"h", "i">>,
    locked |-> FALSE]
\* a locked command:  <setvar:a;2>ok
CcLocked == [content |-> <<"<", "s", "e", "t", "v", "a", "r", ":", "a", ";", "2", ">", "o", "k">>,
    locked |-> TRUE]

CcNames == {"set", "setget", "get", "setfail", "bracket", "nested", "unpack", "plain", "locked"}
ccs ==
    [cmd \in CcNames |->
        CASE cmd = "set" -> CcSet
          [] cmd = "setget" -> CcSetget
          [] cmd = "get" -> CcGet
          [] cmd = "setfail" -> CcSetfail
          [] cmd = "bracket" -> CcBracket
          [] cmd = "nested" -> CcNested
          [] cmd = "unpack" -> CcUnpack
          [] cmd = "plain" -> CcPlain
          [] cmd = "locked" -> CcLocked]

\* an invocation of run_cc suspended in `await respond(msg, text)`; `clears`
\* says whether it goes on to the statements after the respond of a result
Awaiting(cmd, reply, clears) == [cmd |-> cmd, text |-> reply, clears |-> clears]

\* the warning run_cc responds with when _find_tags raises e
ErrorReply(e) ==
    IF e.s = "CustomCommandSyntaxError"
    THEN "**WARNING: Author made syntax error: " \o MsgOf(e) \o "**"
    ELSE IF e.s = "CommandSyntaxError" THEN "**WARNING: " \o MsgOf(e) \o "**"
    ELSE "**WARNING: An error occurred while running the custom command.**"

\* self.ccvars = {}; self.ccs[gid][cmd]["times_run"] += 1
Completed(c, cmd) ==
    [c EXCEPT !.ccvars = EmptyVars, !.times_run[cmd] = c.times_run[cmd] + 1]

\* run_cc(cmd, msg) up to its first await, or to its end when it awaits
\* nothing; manage is msg.author.guild_permissions.manage_messages
RunCc(cmd, manage) ==
    /\ cc.call = "run_cc"
    /\ Len(cc.seen) < MaxRuns
    /\ LET started == [cc EXCEPT !.seen = Append(cc.seen, cc.ccvars)]
           \* no command of ccs has an args tag: the words of msg play no part
           r == _find_tags(ccs[cmd].content, <<>>, cc.ccvars)
           ran == [started EXCEPT !.ccvars = r.ccvars]
       IN  cc' = IF ccs[cmd].locked /\ ~manage
                 THEN [started EXCEPT !.awaiting = Append(cc.awaiting,
                         Awaiting(cmd, <<"**WARNING: Custom command " \o cmd
                                           \o " is locked.**">>, FALSE))]
                 ELSE IF ~r.ok
                 THEN [ran EXCEPT !.awaiting = Append(cc.awaiting,
                         Awaiting(cmd, <<ErrorReply(r.v)>>, FALSE))]
                 ELSE IF r.v # <<>>
                 THEN [ran EXCEPT !.awaiting = Append(cc.awaiting,
                         Awaiting(cmd, r.v, TRUE))]
                 ELSE Completed(ran, cmd)
    /\ UNCHANGED <<lispvars, text, music>>

\* the respond an invocation awaits is done and the invocation runs to its end
Responded(i) ==
    /\ cc.call = "run_cc"
    /\ i \in 1..Len(cc.awaiting)
    /\ LET sent == [cc EXCEPT !.replies = Append(cc.replies, cc.awaiting[i].text),
                              !.awaiting = SubSeq(cc.awaiting, 1, i - 1)
                                  \o SubSeq(cc.awaiting, i + 1, Len(cc.awaiting))]
       IN  cc' = IF cc.awaiting[i].clears THEN Completed(sent, cc.awaiting[i].cmd)
                 ELSE sent
    /\ UNCHANGED <<lispvars, text, music>>

CcRun == \E cmd \in CcNames, manage \in BOOLEAN : RunCc(cmd, manage)
CcResponded == \E i \in 1..MaxRuns : Responded(i)

\* the plugin after activate()
CcInit ==
    /\ cc = [call |-> "run_cc", ccvars |-> EmptyVars, awaiting |-> <<>>,
             seen |-> <<>>, replies |-> <<>>,
             times_run |-> [cmd \in CcNames |-> 0]]
    /\ text = NoText
    /\ music = NoMusic
    /\ session = <<>>
    /\ envs = <<standard_env(0, 0)>>
    /\ ctl = Ctl("idle", None, 0)
    /\ stack = <<>>
    /\ now = 0
    /\ tl = 0
    /\ results = <<>>
    /\ evlog = <<>>

CcNext == CcRun \/ CcResponded

CcSpec == CcInit /\ [][CcNext]_vars

----------------------------------------------------------------------------
(* _find_tags on a stored command and the words of the message that        *)
(* summons it                                                              *)

\* stored command texts with argument tags
\* the first word:  <args:1>
StArgs == <<"<", "a", "r", "g", "s", ":", "1", ">">>
\* all the words:  <args:*>
StAll == <<"<", "a", "r", "g", "s", ":", "*", ">">>
\* a variable set to the words:  <setvar:x;<args:*>>
StKeep == <<"<", "s", "e", "t", "v", "a", "r", ":", "x", ";", "<", "a", "r", "g", "s", ":", "*", ">", ">">>
\* a variable set to the first word and read back:  <setvar:a;<args:1>><getvar:a>
StEcho == <<"<", "s", "e", "t", "v", "a", "r", ":", "a", ";", "<", "a", "r", "g", "s", ":", "1", ">", ">", "<", "g", "e", "t", "v", "a", "r", ":", "a", ">">>
\* two slices of the words side by side:  <args:*1>/<args:2*>
StSlices == <<"<", "a", "r", "g", "s", ":", "*", "1", ">", "/", "<", "a", "r", "g", "s", ":", "2", "*", ">">>
\* two words in exchanged places:  <args:2><args:1>
StSwap == <<"<", "a", "r", "g", "s", ":", "2", ">", "<", "a", "r", "g", "s", ":", "1", ">">>
\* three tags side by side:  <setvar:a;1><setvar:a;2><getvar:a>
StThree == <<"<", "s", "e", "t", "v", "a", "r", ":", "a", ";", "1", ">", "<", "s", "e", "t", "v", "a", "r", ":", "a", ";", "2", ">", "<", "g", "e", "t", "v", "a", "r", ":", "a", ">">>
\* a tag in a tag in a tag:  <setvar:a;<args:<args:1>>>
StDeep == <<"<", "s", "e", "t", "v", "a", "r", ":", "a", ";", "<", "a", "r", "g", "s", ":", "<", "a", "r", "g", "s", ":", "1", ">", ">", ">">>
\* an argument that is no number:  <args:x>
StBad == <<"<", "a", "r", "g", "s", ":", "x", ">">>

StoredTexts ==
    {ccs[cmd].content : cmd \in CcNames}
        \cup {StArgs, StAll, StKeep, StEcho, StSlices, StSwap, StThree, StDeep, StBad}

\* msg.clean_content.split(" ")[1:] of the summoning message
UserWords ==
    {<<>>,
     <<<<"a">>>>,
     <<<<"1">>, <<"b">>>>,
     <<<<"<", "g", "e", "t", "v", "a", "r", ":", "a">>>>,
     <<<<"<", "a", "r", "g", "s", ":", "1", ">">>>>,
     <<<<">">>>>,
     <<<<"<">>>>,
     <<<<"x", ";", "y">>, <<"2">>>>}

\* the ccvars store _find_tags starts with
StartVars == {EmptyVars, [nm \in {"a"} |-> <<"7">>]}

TagInputs ==
    {[call |-> "command", s |-> string, msg |-> msg, ccvars |-> ccvars] :
        string \in StoredTexts, msg \in UserWords, ccvars \in StartVars}

\* text = self._find_tags(self.ccs[gid][cmd]["content"], msg)
CallFindTags ==
    /\ text.call = "command"
    /\ text' = [call |-> "_find_tags", s |-> text.s, msg |-> text.msg,
                ccvars |-> text.ccvars,
                out |-> _find_tags(text.s, text.msg, text.ccvars)]
    /\ UNCHANGED <<lispvars, cc, music>>

TagInit ==
    /\ text \in TagInputs
    /\ session = <<>>
    /\ envs = <<standard_env(0, 0)>>
    /\ ctl = Ctl("idle", None, 0)
    /\ stack = <<>>
    /\ now = 0
    /\ tl = 0
    /\ results = <<>>
    /\ evlog = <<>>
    /\ cc = NoCc
    /\ music = NoMusic

TagNext == CallFindTags

TagSpec == TagInit /\ [][TagNext]_vars

----------------------------------------------------------------------------
(* The music plugin (plugins/music.py): the class ServerStorage, with the  *)
(* objects bound on the class itself, and one instance per guild.  A       *)
(* source is the object create_source makes for one command; it carries    *)
(* the guild of that command as its identity.                              *)

MaxQueue == 2      \* songs add_song may pile up in one list
MaxCommands == 5   \* commands sent to the plugin in one behaviour

Guilds == {1, 2}
Members == {1, 2}  \* the members who send commands
ChannelSize == 4   \* len(self.vc.channel.members): the bot and three members

max_video_length == 1800    \* default_config['default']
max_queue_length == 2       \* config["max_queue_length"] of the guilds (30 when left at the default)

Source(title, duration, guild) == [title |-> title, duration |-> duration, guild |-> guild]
NoSource == Source("", 0, 0)

\* what create_source returns for the commands of guild g
Playlists(g) ==
    {<<Source("a", 100, g)>>,
     <<Source("long", 2000, g)>>,
     <<Source("long", 2000, g), Source("a", 100, g), Source("b", 200, g)>>}

\* an attribute of an instance: the object bound on the instance when own,
\* and the object bound on the class when no assignment to it has been made
Attribute(own, value) == [own |-> own, value |-> value]

\* ServerStorage.__init__ binds neither queue nor vote_set on the instance
NewPlayer ==
    [queue |-> Attribute(FALSE, <<>>), vote_set |-> Attribute(FALSE, {}),
     playing |-> FALSE, source |-> NoSource, after |-> FALSE]

\* self.queue and self.vote_set of the instance of guild g
Queue(m, g) ==
    IF m.players[g].queue.own THEN m.players[g].queue.value ELSE m.class.queue
VoteSet(m, g) ==
    IF m.players[g].vote_set.own THEN m.players[g].vote_set.value ELSE m.class.vote_set

\* a change in place of the list self.queue names (append, pop)
MutateQueue(m, g, q) ==
    IF m.players[g].queue.own THEN [m EXCEPT !.players[g].queue.value = q]
    ELSE [m EXCEPT !.class.queue = q]

\* self.vote_set.add(id)
MutateVoteSet(m, g, votes) ==
    IF m.players[g].vote_set.own THEN [m EXCEPT !.players[g].vote_set.value = votes]
    ELSE [m EXCEPT !.class.vote_set = votes]

\* self.queue = []  and  self.vote_set = set()
AssignQueue(m, g, q) == [m EXCEPT !.players[g].queue = Attribute(TRUE, q)]
AssignVoteSet(m, g, votes) == [m EXCEPT !.players[g].vote_set = Attribute(TRUE, votes)]

\* self.vc.play(source, after=p_next)
VcPlay(m, g, source) ==
    [m EXCEPT !.players[g].playing = TRUE, !.players[g].source = source]

\* self.vc.stop(): the player is dropped and its after callback is called
VcStop(m, g) ==
    [m EXCEPT !.players[g].playing = FALSE, !.players[g].source = NoSource,
              !.players[g].after = TRUE]

RECURSIVE add_songs(_, _, _)
\* add_songs: every source that is short enough is appended while the
\* queue is below its configured length
add_songs(m, g, sources) ==
    IF sources = <<>> THEN m
    ELSE LET fits == /\ Len(Queue(m, g)) < max_queue_length
                     /\ Head(sources).duration < max_video_length
         IN  add_songs(IF fits THEN MutateQueue(m, g, Append(Queue(m, g), Head(sources)))
                       ELSE m,
                       g, Tail(sources))

RECURSIVE SkipLong(_)
\* the pops of play_song: the first source that is not too long, or the
\* last source when all are
SkipLong(sources) ==
    IF Head(sources).duration > max_video_length /\ Tail(sources) # <<>>
    THEN SkipLong(Tail(sources))
    ELSE sources

\* play_song(vid, data) after its create_source has returned sources
play_song(m, g, sources) ==
    IF ~m.players[g].playing /\ Queue(m, g) = <<>>
    THEN LET left == SkipLong(sources)
             t_source == Head(left)
         IN  IF t_source.duration > max_video_length THEN m
             ELSE add_songs(VcPlay(AssignVoteSet(m, g, {}), g, t_source),
                            g, Tail(left))
    ELSE add_songs(m, g, sources)

\* play_next(data, exc)
play_next(m, g) ==
    IF m.players[g].playing THEN VcStop(m, g)
    ELSE IF Len(Queue(m, g)) > 0
    THEN VcPlay(MutateQueue(m, g, Tail(Queue(m, g))), g, Head(Queue(m, g)))
    ELSE m

\* add_song(vid): the first source is appended, whatever its length
add_song(m, g, sources) == MutateQueue(m, g, Append(Queue(m, g), Head(sources)))

\* skip_song(data): member is data.author.id, override its mute_members right
skip_song(m, g, member, override) ==
    IF m.players[g].source = NoSource /\ Queue(m, g) # <<>>
    THEN play_next(m, g)
    ELSE LET voted == MutateVoteSet(m, g, VoteSet(m, g) \cup {member})
             votes == Cardinality(VoteSet(voted, g))
         IN  IF 2 * votes >= ChannelSize - 1 \/ override
             THEN play_next(voted, g)
             ELSE voted

\* stop_song()
stop_song(m, g) ==
    LET emptied == IF Queue(m, g) # <<>> THEN AssignQueue(m, g, <<>>) ELSE m
    IN  IF emptied.players[g].source # NoSource THEN VcStop(emptied, g) ELSE emptied

Playing == music.call = "music"

\* a command is received: the handlers below are entered from it
Commanded(m) == [m EXCEPT !.commands = m.commands + 1]
Receiving == Playing /\ music.commands < MaxCommands

\* !play: ServerStorage.play_song
PlaySong(g) ==
    /\ Receiving
    /\ \E sources \in Playlists(g) : music' = play_song(Commanded(music), g, sources)
    /\ UNCHANGED <<lispvars, text, cc>>

\* !append: ServerStorage.add_song
AddSong(g) ==
    /\ Receiving
    /\ Len(Queue(music, g)) < MaxQueue
    /\ \E sources \in Playlists(g) : music' = add_song(Commanded(music), g, sources)
    /\ UNCHANGED <<lispvars, text, cc>>

\* !skip: ServerStorage.skip_song
SkipSong(g) ==
    /\ Receiving
    /\ \E member \in Members, override \in BOOLEAN :
          music' = skip_song(Commanded(music), g, member, override)
    /\ UNCHANGED <<lispvars, text, cc>>

\* !stop: ServerStorage.stop_song
StopSong(g) ==
    /\ Receiving
    /\ music' = stop_song(Commanded(music), g)
    /\ UNCHANGED <<lispvars, text, cc>>

\* the song of guild g plays to its end and the audio thread calls after
SongEnds(g) ==
    /\ Playing
    /\ music.players[g].playing
    /\ music' = [music EXCEPT !.players[g].playing = FALSE, !.players[g].after = TRUE]
    /\ UNCHANGED <<lispvars, text, cc>>

\* p_next(err): the play_next the after callback scheduled runs
AfterSong(g) ==
    /\ Playing
    /\ music.players[g].after
    /\ music' = play_next([music EXCEPT !.players[g].after = FALSE], g)
    /\ UNCHANGED <<lispvars, text, cc>>

\* the plugin after activate(): one ServerStorage per guild
MusicInit ==
    /\ music = [call |-> "music", commands |-> 0,
                class |-> [queue |-> <<>>, vote_set |-> {}],
                players |-> [g \in Guilds |-> NewPlayer]]
    /\ text = NoText
    /\ cc = NoCc
    /\ session = <<>>
    /\ envs = <<standard_env(0, 0)>>
    /\ ctl = Ctl("idle", None, 0)
    /\ stack = <<>>
    /\ now = 0
    /\ tl = 0
    /\ results = <<>>
    /\ evlog = <<>>

MusicNext ==
    \E g \in Guilds :
        \/ PlaySong(g) \/ AddSong(g) \/ SkipSong(g) \/ StopSong(g)
        \/ SongEnds(g) \/ AfterSong(g)

MusicSpec == MusicInit /\ [][MusicNext]_vars

----------------------------------------------------------------------------
(* Properties of the reader *)

\* how often the character c stands in the text
Count(string, c) == Cardinality({i \in 1..Len(string) : string[i] = c})

Parsed == text.call = "parse"

\* the reader's failure for exhausted input
UnexpectedEOF == CCSE(<<Text("unexpected EOF while reading")>>)

\* C11: parse of a text with more opening than closing brackets (no quote
\* in it, so every bracket is a bracket token) fails with the reader's
\* syntax error for exhausted input, and with no other failure.
C11_UnclosedIsSyntaxError ==
    /\ Parsed
    /\ Count(text.s, DQ) = 0
    /\ Count(text.s, "(") > Count(text.s, ")")
    => ~text.out.ok /\ text.out.v = UnexpectedEOF

\* the reader's failure for a closing bracket that opens nothing
UnexpectedCloser == CCSE(<<Text("unexpected )")>>)

\* some closing bracket of the text has no opening bracket left to match
UnmatchedCloser(string) ==
    \E i \in 1..Len(string) :
        Count(SubSeq(string, 1, i), ")") > Count(SubSeq(string, 1, i), "(")

\* C12: parse of a text with a closing bracket that has no matching opener
\* (no quote in the text) fails with the syntax error for an unexpected
\* closing bracket, wherever that bracket stands.
C12_UnmatchedCloserIsSyntaxError ==
    /\ Parsed
    /\ Count(text.s, DQ) = 0
    /\ UnmatchedCloser(text.s)
    => ~text.out.ok /\ text.out.v = UnexpectedCloser

\* the last double quote of the text opens a string that is never closed
\* (no backslash in the text, so every quote is unescaped)
UnterminatedQuote(string) ==
    Count(string, BS) = 0 /\ Count(string, DQ) % 2 = 1

\* C13: parse of a text with an unterminated double quote fails with a
\* syntax error and returns no expression.
C13_UnterminatedQuoteIsSyntaxError ==
    Parsed /\ UnterminatedQuote(text.s)
    => ~text.out.ok /\ text.out.v.s = "CustomCommandSyntaxError"

\* every closing bracket of the text closes an opening bracket before it, and
\* no opening bracket is left open
Balanced(string) ==
    Count(string, "(") = Count(string, ")") /\ ~UnmatchedCloser(string)

\* the deepest bracket nesting of the text
BracketDepth(string) ==
    LET open(i) == Count(SubSeq(string, 1, i), "(") - Count(SubSeq(string, 1, i), ")")
        depths == {open(i) : i \in 0..Len(string)}
    IN  CHOOSE d \in depths : \A e \in depths : e <= d

RECURSIVE Nesting(_)
\* the deepest list nesting of an expression
Nesting(x) ==
    IF x.k # "list" THEN 0
    ELSE LET inner == {Nesting(x.a[i]) : i \in 1..Len(x.a)} \cup {0}
         IN  1 + CHOOSE d \in inner : \A e \in inner : e <= d

\* C21: parse of a text with balanced brackets (no quote, backslash or
\* comment in it, and at least one token) returns an expression, leaves no
\* token unread and nests the expression as the brackets nest, several
\* top-level forms in sequence included.
C21_ParseConsumesAll ==
    /\ Parsed
    /\ Count(text.s, DQ) = 0 /\ Count(text.s, BS) = 0 /\ Count(text.s, ";") = 0
    /\ Balanced(text.s)
    /\ tokenize(text.s) # <<>>
    => /\ text.out.ok
       /\ text.out.rest = <<>>
       /\ Nesting(text.out.v) = BracketDepth(text.s)

----------------------------------------------------------------------------
(* Properties of the escaper *)

PlaceholderChars == {U00, U01, U02}

NoPlaceholder(string) == \A i \in 1..Len(string) : string[i] \notin PlaceholderChars

\* the text holds one of the escape sequences \\, \" and \n
HasEscape(string) ==
    \E i \in 1..(Len(string) - 1) : string[i] = BS /\ string[i + 1] \in {BS, DQ, "n"}

\* the character an escape sequence ending in c denotes
Denoted(c) == IF c = "n" THEN NL ELSE c

RECURSIVE Unescaped(_)
\* the text with its escape sequences, read from the left, replaced by the
\* characters they denote
Unescaped(string) ==
    IF string = <<>> THEN <<>>
    ELSE IF Len(string) >= 2 /\ string[1] = BS /\ string[2] \in {BS, DQ, "n"}
         THEN <<Denoted(string[2])>> \o Unescaped(SubSeq(string, 3, Len(string)))
         ELSE <<string[1]>> \o Unescaped(Tail(string))

Restored == text.call = "l_restore"

----------------------------------------------------------------------------
(* Properties of transcode *)

Chars(string) == {string[i] : i \in 1..Len(string)}

\* no character stands twice in the mapping string
Injective(code) == Cardinality(Chars(code)) = Len(code)

\* transcode was called with two custom mapping strings
Custom == Len(text.args) = 2

\* the translated string is the string with each character that stands in A
\* replaced by the character at the same place of B
ByCharacter(out, string, A, B) ==
    /\ Len(out) = Len(string)
    /\ \A i \in 1..Len(string) :
          IF string[i] \in Chars(A)
          THEN \E j \in 1..Len(A) :
                  /\ A[j] = string[i] /\ B[j] = out[i]
                  /\ \A k \in 1..Len(A) : A[k] = string[i] => k <= j
          ELSE out[i] = string[i]

C15_UnequalFails ==
    text.call = "transcode" /\ Custom /\ Len(text.args[1]) # Len(text.args[2])
    => ~text.out.ok /\ text.out.v = UnequalLength

C15_EqualTranslates ==
    text.call = "transcode" /\ Custom /\ Len(text.args[1]) = Len(text.args[2])
    => text.out.ok /\ ByCharacter(text.out.v, text.s, text.args[1], text.args[2])

\* C15 as stated: unequal lengths fail with the syntax error, equal lengths
\* translate character by character, and translating back with the mapping
\* strings exchanged gives the string again, for all A, B and s.
C15_RoundTrip ==
    /\ C15_UnequalFails
    /\ C15_EqualTranslates
    /\ text.call = "transcode back" => text.out = Ok(text.s)

\* C15, amended: unequal lengths fail with the syntax error, equal lengths
\* translate character by character (the last occurrence deciding for a
\* character that stands twice in A), and translating back gives the string
\* again whenever neither mapping string repeats a character and every
\* character of s that stands in B also stands in A.
C15_Transcode ==
    /\ C15_UnequalFails
    /\ C15_EqualTranslates
    /\ text.call = "transcode back"
         /\ Injective(text.args[1]) /\ Injective(text.args[2])
         /\ Chars(text.s) \cap Chars(text.args[2]) \subseteq Chars(text.args[1])
       => text.out = Ok(text.s)

\* a string has been translated through overlapping alphabets and back
C15_Witness ==
    /\ text.call = "transcode back"
    /\ text.s = <<"a", "b">>
    /\ text.args = <<<<"a", "b">>, <<"b", "c">>>>
    /\ text.out = Ok(text.s)

----------------------------------------------------------------------------
(* Properties of standard_env *)

\* the overrides of a call: the keyword arguments themselves, and the names
\* and values paired by the parms and args keywords
Overrides(kw) ==
    LET parms == Keyword(kw, "parms", List(<<>>)).a
        args == Keyword(kw, "args", List(<<>>)).a
    IN  {<<kw[i].name, kw[i].v>> : i \in {j \in 1..Len(kw) : kw[j].name \notin EnvParams}}
            \cup {<<parms[i].s, args[i]>> : i \in 1..Min(Len(parms), Len(args))}

\* the primitive table is installed
Primitives(env) ==
    \A nm \in {"+", ">", "do", "car", "list"} :
        nm \in DOMAIN env.vars /\ env.vars[nm] = Prim(nm)

\* C16: standard_env called with overrides returns a root environment with
\* the primitive table installed in which every placeholder identifier
\* named in the overrides carries the override value.
C16_OverridesInstalled ==
    text.call = "standard_env"
    => /\ text.out.ok
       /\ Primitives(text.out.v)
       /\ \A o \in Overrides(text.kw) :
             o[1] \in Placeholders => text.out.v.vars[o[1]] = o[2]

----------------------------------------------------------------------------
(* Properties of the tokenizer *)

\* the tokens that are not quoted strings
BareTokens(tokens) == {tokens[i] : i \in {j \in 1..Len(tokens) : tokens[j][1] # DQ}}

\* the text is two atoms with one newline or tab between them
TwoAtoms(string) ==
    /\ Len(string) = 3
    /\ string[2] \in {NL, "\t"}
    /\ {string[1], string[3]} \subseteq {"a", "n", "A", "1"}

\* C19: every whitespace character outside quotes is a separator that
\* produces no token: no bare token contains whitespace, and two atoms with
\* only a newline or a tab between them come out as two tokens.
C19_WhitespaceSeparates ==
    text.call = "tokenize"
    => /\ \A token \in BareTokens(text.out) : Chars(token) \cap Whitespace = {}
       /\ TwoAtoms(text.s) => Len(text.out) = 2

----------------------------------------------------------------------------
(* Properties of the shared root environment *)

\* a root built without arguments is global_env itself, and a top-level
\* call in it is a call of lisp_eval with the default environment argument
DefaultEnv == envs[1].max_runtime = 0

\* C17: no sequence of top-level evaluations, calls with the default
\* environment argument included, changes the bindings of global_env.
C17_GlobalEnvUnchanged == DefaultEnv => envs[1].vars = StdVars

----------------------------------------------------------------------------
(* Properties of print *)

\* the value of output in the Env that chain lookup from e finds
Output(E, e) == E[find(E, e, "output")].vars["output"].s

\* the line of a print form whose argument values are vals
PrintLine(vals) == JoinStr([j \in 1..Len(vals) |-> PyStr(vals[j])], " ") \o "\n"

\* the step that completes a print form with arguments, and the one that
\* evaluates a print form without arguments
PrintReturns == Acting /\ Returning({"print"}) /\ Top.i = Len(Top.x.a)
PrintBare == Acting /\ Dispatch({"print"}) /\ Len(ctl.x.a) = 1

\* C18: every evaluated print appends exactly one line, the space-joined
\* str() of its argument values and a newline, to the output binding found
\* by chain lookup, and removes nothing that is in output when it completes
\* (the lines of the prints run by its own arguments included).
C18_Steps ==
    /\ PrintReturns /\ find(envs, Top.env, "output") # 0
       => Output(envs', Top.env)
            = Output(envs, Top.env) \o PrintLine(SubSeq(Vals, 3, Len(Vals)))
    /\ PrintBare /\ find(envs, ctl.env, "output") # 0
       => Output(envs', ctl.env) = Output(envs, ctl.env) \o "\n"

C18_PrintAppends == [][C18_Steps]_vars

----------------------------------------------------------------------------
(* Properties of the custom-command variables *)

\* C20: at the start of every run_cc the ccvars store is empty, whether
\* the invocation before it completed or ended in an error.
C20_CcvarsEmptyAtStart ==
    cc.call = "run_cc" => \A i \in 1..Len(cc.seen) : cc.seen[i] = EmptyVars

----------------------------------------------------------------------------
(* Properties of the tag processing *)

FoundTags == text.call = "_find_tags"

\* the place in the stored text of the closing bracket a call worked on
Closer(call) == Len(text.s) + 1 - call.t_pos

RECURSIVE MatchOpen(_, _, _)
\* the opening bracket that matches the closing bracket under which the
\* walk to the left began; depth counts the brackets still to be matched
MatchOpen(string, pos, depth) ==
    IF pos = 0 THEN 0
    ELSE IF string[pos] = ">" THEN MatchOpen(string, pos - 1, depth + 1)
    ELSE IF string[pos] = "<"
    THEN IF depth = 1 THEN pos ELSE MatchOpen(string, pos - 1, depth - 1)
    ELSE MatchOpen(string, pos - 1, depth)

Opener(call) == MatchOpen(text.s, Closer(call), 0)

\* the tag of call a stands inside the tag of call b in the stored text
NestedIn(a, b) == Opener(b) < Opener(a) /\ Closer(a) < Closer(b)

\* the tags of the two calls stand side by side, a to the left of b
LeftOf(a, b) == Closer(a) < Opener(b)

\* every tag is processed after the tags nested in it
InnerFirst ==
    \A i, j \in 1..Len(text.out.calls) :
        NestedIn(text.out.calls[j], text.out.calls[i]) => j < i

WrittenName(string, i) ==
    LET stops == {k \in (i + 1)..Len(string) : string[k] \in {":", ">", "<"}}
        stop == IF stops = {} THEN Len(string) + 1
                ELSE CHOOSE k \in stops : \A l \in stops : k <= l
    IN  SubSeq(string, i + 1, stop - 1)

\* the names of the tags written in the text
WrittenTags(string) ==
    {LowerText(WrittenName(string, i)) : i \in {k \in 1..Len(string) : string[k] = "<"}}

\* the tag functions the calls of _parse_tag invoked
Invoked(calls) ==
    {Cat(TagName(calls[i].tag)) : i \in 1..Len(calls)} \cap tags

\* C28: whatever the words of the message are, _find_tags invokes no tag
\* function whose name is not written as a tag in the stored text.
C28_OnlyStoredTags ==
    FoundTags
    => \A name \in Invoked(text.out.calls) :
          \E written \in WrittenTags(text.s) : Cat(written) = name

----------------------------------------------------------------------------
(* Properties of the music player *)

\* the step starts a song on the player of guild g
SongStarts(g) ==
    /\ music'.players[g].playing
    /\ ~music.players[g].playing \/ music'.players[g].source # music.players[g].source

\* C29: whenever a song starts playing on the player of a guild, started by
\* play_song on an idle player or by play_next, the skip-vote set of that
\* player is empty.
C29_Steps ==
    Playing => \A g \in Guilds : SongStarts(g) => VoteSet(music', g) = {}

C29_VotesEmptiedForEverySong == [][C29_Steps]_vars

\* C30: every song in the queue of a guild's player was appended by a
\* command of that guild: no song appended to one guild's queue stands in
\* the queue of another.
C30_QueuesSeparate ==
    Playing
    => \A g \in Guilds :
          \A i \in 1..Len(Queue(music, g)) : Queue(music, g)[i].guild = g

====
